---- MODULE Spec2Model ----
(***************************************************************************)
(* Verification model of the RoK stats / title bot automation core:        *)
(*   - TitleRequestTracker (roktracker/utils/title_tracker.py)             *)
(*   - StateDetector / IntelligentRecovery (roktracker/utils/game_state.py)*)
(*   - GameNavigator (roktracker/utils/navigation_positions.py)            *)
(*   - SmartNavigator (roktracker/utils/smart_navigator.py)                *)
(*   - TitleBot escape handling (title_bot.py)                             *)
(*   - RokRemoteBot stop checker (rok_remote_bot.py)                       *)
(***************************************************************************)
EXTENDS Integers, Sequences, FiniteSets, TLC

VARIABLES
    now,              \* time.time(), in seconds
    seen_messages,    \* TitleRequestTracker.seen_messages: hash -> first seen
    other_seen,       \* seen_messages entries of players outside Names: time -> count
    player_stats,     \* TitleRequestTracker.player_stats: normalized name -> stats
    recent_requests,  \* TitleRequestTracker.recent_requests (list of TitleRequest)
    other_recent,     \* recent_requests entries of players outside Names: time -> count
    session_requests, \* TitleRequestTracker.session_requests
    session_grants,   \* TitleRequestTracker.session_grants
    ret,              \* the last tracker call and what it returned
    hist,             \* history: per pair, when it was last reported new and
                      \* which removals happened since
    frame,            \* the frame on the device screen, as the measurements
                      \* the detectors take of it
    result,           \* the last StateDetectionResult of detect_state
    proc,             \* the procedure the device thread is in
    pc,               \* its position in that procedure
    budget,           \* max_attempts of the running call
    attempt,          \* iterations of its loop begun
    inner,            \* counters of inner loops and the return position
    shot,             \* the last capture, NoShot if it failed
    sent,             \* the input this step sent to the device
    esc,              \* guard state of the last escape key press
    cycles,           \* classifications made by the running call
    outcome,          \* what the last call returned
    caller,           \* the thread that runs the procedure
    bot_state,        \* RokRemoteBot.state
    main_pc,          \* position of the main thread of the remote bot
    checker_pc,       \* position of its stop-checker thread
    scanner,          \* RokRemoteBot.scanner is set
    stop_scan,        \* scanner.stop_scan and scanner.abort
    lock,             \* TitleRequestTracker._lock: its holder, or "free"
    threads,          \* the threads calling the tracker concurrently
    wins,             \* per pair: isNew=true decisions since its last removal
    won,              \* isNew=true decisions in total
    mark,             \* per device thread: its classification count when another thread's input last reached the device
    parked,           \* the procedure of the device thread that is not running now
    switches,         \* how often the scheduler has changed the running device thread
    msvcrt,           \* the platform has the msvcrt module (Windows)
    file_lock,        \* the process holding the byte lock on the instance lock file
    procs,            \* the bot processes started for the device
    pending_requests, \* TitleBot.pending_requests: the local queue, by request key
    pending_keys,     \* TitleBot.pending_keys
    processed_requests, \* TitleBot.processed_requests
    failed_attempts,  \* TitleBot.failed_attempts
    tries,            \* per request key: calls of process_single_request
    dup,              \* request keys the API answered with a duplicate-pending rejection
    stats_file,       \* player_title_stats.json on the disk
    saved,            \* the _save_data of the last tracker call: its caller, what
                      \* became of the write, how it ended
    ocr_cache,        \* VisionSystem._ocr_cache: key -> (text, cached_time)
    ocr_ret,          \* the last read_text call and how it ended
    chat,             \* the OCR text of one pass and what ChatParser made of it
    ensure,           \* the ensure_idle_state call: its position, what it has
                      \* observed and what it returned
    adb,              \* the byte lock on the ADB lock file of the device and the
                      \* processes that run ADB commands under it
    remote            \* the command slot of the backend for this kingdom, the
                      \* last command a thread of the remote bot fetched from
                      \* it, and the progress of run_scan

persistVars == <<stats_file, saved>>

trackerVars == <<now, seen_messages, other_seen, player_stats, recent_requests,
                 other_recent, session_requests, session_grants, ret, hist,
                 persistVars>>

screenVars == <<frame, result>>

deviceVars == <<proc, pc, budget, attempt, inner, shot, sent, esc, cycles, outcome,
                mark>>

\* State that only the sessions of the bots change
orderVars == <<parked, switches>>

lockVars == <<msvcrt, file_lock, procs>>

queueVars == <<pending_requests, pending_keys, processed_requests, failed_attempts,
               tries, dup>>

visionVars == <<ocr_cache, ocr_ret, chat>>

ensureVars == <<ensure, adb, remote>>

extVars == <<orderVars, lockVars, queueVars, visionVars, ensureVars>>

remoteVars == <<caller, bot_state, main_pc, checker_pc, scanner, stop_scan, extVars>>

concVars == <<lock, threads, wins, won>>

\* What the steps of the device procedures leave alone
idleVars == <<trackerVars, remoteVars, concVars>>

\* The state of the tracker, the screen, the device procedures, the remote
\* bot's threads and the tracker's callers
coreVars == <<trackerVars, screenVars, deviceVars, caller, bot_state, main_pc,
              checker_pc, scanner, stop_scan, concVars>>

\* What the steps of each later part leave alone
orderRest == <<lockVars, queueVars, visionVars, ensureVars>>

lockRest == <<coreVars, orderVars, queueVars, visionVars, ensureVars>>

queueRest == <<coreVars, orderVars, lockVars, visionVars, ensureVars>>

visionRest == <<coreVars, orderVars, lockVars, queueVars, ensureVars>>

ensureRest == <<coreVars, orderVars, lockVars, queueVars, visionVars>>

vars == <<trackerVars, screenVars, deviceVars, remoteVars, concVars>>

----------------------------------------------------------------------------
\* Program constants

seen_messages_ttl == 3600

CleanupThreshold == 100

RecentWindow == 120

RateWindow == 3600

\* Bounds of the model

MaxTime == 3600

MaxRequests == 2

MaxGrants == 1

FillBatch == 50

MaxOthers == 100

MaxAttempts == 2

MaxChatTaps == 2

\* Clock advances between calls (half a TTL, a full TTL)
Deltas == {1800, 3600}

----------------------------------------------------------------------------
\* Strings are sequences of characters so that lower() and strip() compute.

Chars == {"a", "A", "b", " "}

\* The ASCII letters, in alphabetical order
UpperCase == <<"A", "B", "C", "D", "E", "F", "G", "H", "I", "J", "K", "L", "M",
               "N", "O", "P", "Q", "R", "S", "T", "U", "V", "W", "X", "Y", "Z">>

LowerCase == <<"a", "b", "c", "d", "e", "f", "g", "h", "i", "j", "k", "l", "m",
               "n", "o", "p", "q", "r", "s", "t", "u", "v", "w", "x", "y", "z">>

UpperLetters == { UpperCase[i] : i \in 1..26 }

LowerLetters == { LowerCase[i] : i \in 1..26 }

\* str.lower() on one character
LowerChar(c) ==
    IF c \in UpperLetters
    THEN LowerCase[CHOOSE i \in 1..26 : UpperCase[i] = c]
    ELSE c

\* Whitespace characters: the space, "\n", "\t" and the no-break space
Whitespace == {" ", "LF", "TAB", "NBSP"}

IsSpace(c) == c \in Whitespace

Lower(s) == [i \in 1..Len(s) |-> LowerChar(s[i])]

RECURSIVE LStrip(_)
LStrip(s) == IF s # <<>> /\ IsSpace(Head(s)) THEN LStrip(Tail(s)) ELSE s

RECURSIVE RStrip(_)
RStrip(s) ==
    IF s # <<>> /\ IsSpace(s[Len(s)]) THEN RStrip(SubSeq(s, 1, Len(s) - 1)) ELSE s

Strip(s) == RStrip(LStrip(s))

\* A variant of the normalization that keeps surrounding spaces
NormalizeNoStrip(name) == Lower(name)

\* TitleRequestTracker._normalize_name: name.lower().strip()
NormalizeName(name) == Strip(Lower(name))

\* Raw player names as the chat parser may hand them over
Names == { <<"A", " ">>, <<"a">>, <<"b">> }

NormNames == { NormalizeName(n) : n \in Names }

\* The four title types the stats know
TitleTypes == {"duke", "scientist", "architect", "justice"}

\* Raw title_type arguments used by the model's callers
RawTitles == {"duke", "Duke", "justice"}

\* str.lower() on the raw titles
LowerTitle(k) == CASE k = "Duke" -> "duke" [] OTHER -> k

Tags == {"", "F28A"}

\* title_type = None (or "") in clear_player_from_seen
NoTitle == ""

\* The (player_name, alliance_tag, title_type) requests read from the chat
TrackInputs ==
    { << <<"A", " ">>, "F28A", "Duke" >>,
      << <<"a">>, "", "duke" >>,
      << <<"b">>, "", "justice" >> }

\* record_grant(player_name, title_type) calls
GrantInputs ==
    { << <<"A", " ">>, "Duke" >>, << <<"b">>, "justice" >> }

\* clear_player_from_seen(player_name, title_type) calls
ClearInputs ==
    { << <<"a">>, NoTitle >>, << <<"b">>, "justice" >> }

\* A variant of the hash that keeps the case of the title
MsgHashNoLower(player_name, title_type) == <<NormalizeName(player_name), title_type>>

\* TitleRequestTracker._get_message_hash: md5 of "<normalized>:<title.lower()>";
\* the digest is represented by the content it is computed from.
MsgHash(player_name, title_type) ==
    <<NormalizeName(player_name), LowerTitle(title_type)>>

\* The (normalized player, title type) pair a call is about, as the history
\* bookkeeping identifies it
PairOf(player_name, title_type) ==
    <<Strip(Lower(player_name)), LowerTitle(title_type)>>

Pairs == { PairOf(n, k) : n \in Names, k \in RawTitles \cup TitleTypes }

NoKey == <<>>

----------------------------------------------------------------------------
\* Bags of anonymous entries, time -> count

BagCount(b) ==
    LET RECURSIVE Sum(_)
        Sum(S) == IF S = {} THEN 0
                  ELSE LET t == CHOOSE x \in S : TRUE IN b[t] + Sum(S \ {t})
    IN Sum(DOMAIN b)

BagAdd(b, t, n) ==
    IF n = 0 THEN b
    ELSE [x \in DOMAIN b \cup {t} |->
            IF x = t THEN (IF t \in DOMAIN b THEN b[t] ELSE 0) + n ELSE b[x]]

BagKeepNewer(b, cutoff) == [x \in {t \in DOMAIN b : t > cutoff} |-> b[x]]

EmptyFn == [x \in {} |-> 0]

\* len(self.seen_messages)
SeenLen(seen, others) == Cardinality(DOMAIN seen) + BagCount(others)

\* A variant of the cleanup whose cutoff is the current time
CleanupCutoffNow(seen, current_time) ==
    [h \in {k \in DOMAIN seen : seen[k] > current_time} |-> seen[h]]

\* TitleRequestTracker._cleanup_seen_messages: keep v > current_time - ttl
CleanupSeen(seen, current_time) ==
    [h \in {k \in DOMAIN seen : seen[k] > current_time - seen_messages_ttl} |-> seen[h]]

CleanupOthers(others, current_time) ==
    BagKeepNewer(others, current_time - seen_messages_ttl)

\* "if len(self.seen_messages) > 100: self._cleanup_seen_messages(timestamp)"
NeedsCleanup(seen, others) == SeenLen(seen, others) > CleanupThreshold

----------------------------------------------------------------------------
\* PlayerTitleStats

NoTime == -1

NewStats(player_name, alliance_tag) ==
    [ player_name |-> player_name,
      alliance_tag |-> alliance_tag,
      requests |-> [k \in TitleTypes |-> 0],
      grants |-> [k \in TitleTypes |-> 0],
      first_request |-> NoTime,
      last_request |-> NoTime,
      total_requests |-> 0,
      total_grants |-> 0,
      recent_request_times |-> <<>> ]

\* Requests of the players in Names tracked so far (bounds the model)
ModelledRequests(stats) ==
    LET RECURSIVE Sum(_)
        Sum(S) == IF S = {} THEN 0
                  ELSE LET n == CHOOSE x \in S : TRUE
                       IN stats[n].total_requests + Sum(S \ {n})
    IN Sum(DOMAIN stats)

\* A variant of add_request that counts the request under its title only
AddRequestUncounted(st, title_type, timestamp) ==
    [ st EXCEPT
        !.requests = IF title_type \in TitleTypes
                     THEN [@ EXCEPT ![title_type] = @ + 1] ELSE @,
        !.last_request = timestamp ]

\* PlayerTitleStats.add_request
AddRequest(st, title_type, timestamp) ==
    LET Recent(t) == t > timestamp - RateWindow
    IN [ st EXCEPT
           !.total_requests = @ + 1,
           !.requests = IF title_type \in TitleTypes
                        THEN [@ EXCEPT ![title_type] = @ + 1] ELSE @,
           !.first_request = IF @ = NoTime THEN timestamp ELSE @,
           !.last_request = timestamp,
           !.recent_request_times =
               Append(SelectSeq(@, Recent), timestamp) ]

\* PlayerTitleStats.add_grant
AddGrant(st, title_type) ==
    [ st EXCEPT
        !.total_grants = @ + 1,
        !.grants = IF title_type \in TitleTypes
                   THEN [@ EXCEPT ![title_type] = @ + 1] ELSE @ ]

\* TitleRequest
NewRequest(player_name, alliance_tag, title_type, timestamp) ==
    [ player_name |-> player_name, alliance_tag |-> alliance_tag,
      title_type |-> title_type, timestamp |-> timestamp,
      was_granted |-> FALSE, granted_at |-> NoTime ]

\* "self.recent_requests = [r for r in self.recent_requests if r.timestamp > cutoff]"
PruneRecent(reqs, timestamp) ==
    LET Fresh(r) == r.timestamp > timestamp - RecentWindow
    IN SelectSeq(reqs, Fresh)

----------------------------------------------------------------------------
\* History bookkeeping (not program state): "grant" records a record_grant
\* for the pair, "clear" a clear_player_from_seen or reset_seen_messages.

RemovalOps == {"grant", "clear"}

NoHist == [newAt |-> NoTime, since |-> {}]

HistNew(h, t) == [hist EXCEPT ![h] = [newAt |-> t, since |-> {}]]

HistRemoved(hs, op) ==
    [h \in Pairs |-> IF h \in hs /\ hist[h].newAt # NoTime
                    THEN [hist[h] EXCEPT !.since = @ \cup {op}] ELSE hist[h]]

NoRet == [op |-> "none", pair |-> NoKey, ok |-> FALSE,
          prevNewAt |-> NoTime, since |-> {}, afterGrant |-> FALSE]

Ret(op, h, ok) ==
    [ op |-> op, pair |-> h, ok |-> ok,
      prevNewAt |-> IF h \in Pairs THEN hist[h].newAt ELSE NoTime,
      since |-> IF h \in Pairs THEN hist[h].since ELSE {},
      afterGrant |-> ret.op = "grant" /\ ret.pair = h ]

----------------------------------------------------------------------------
\* StateDetector (game_state.py).  A frame is the record of the measurements
\* the detectors take of it; brightness, deviation and colour values are the
\* 0..255 quantities numpy computes, scores and ratios are in hundredths.

Colour(r, g, b) == [r |-> r, g |-> g, b |-> b]

\* Region mean colours: the measured exit dialog header and CANCEL button,
\* a brown header and a cyan button, and a dark region
NoticeColours == { Colour(145, 164, 89), Colour(150, 120, 80), Colour(30, 30, 30) }

CancelColours == { Colour(186, 181, 110), Colour(100, 200, 200), Colour(30, 30, 30) }

FrameSpace ==
    [ mean : {10, 70, 130},         \* np.mean(screen)
      loadVar : {1000, 3000},       \* variance of the centre 100x100, gray
      loadMean : {150},             \* mean of the centre 100x100
      connCenter : {60, 130},       \* mean of the centre third
      tmpl : {0, 80},               \* best exit_menu template score (0: no template)
      notice : NoticeColours,       \* mean colour of screen[200:280, 550:750]
      cancel : CancelColours,       \* mean colour of screen[430:490, 700:860]
      popBright : {100, 200},       \* mean of screen[200:500, 450:850], gray
      popStd : {30},                \* its standard deviation
      closeBright : {138, 160},     \* mean of screen[60:100, 1020:1070]
      panelBright : {120},          \* mean of screen[100:400, 800:1100]
      panelStd : {40},              \* its standard deviation
      gold : {0, 5},                \* gold pixels of the header, percent
      listStd : {50},               \* deviation of screen[250:600, 300:1300]
      tab : {"power", "killpoints"},\* the brighter ranking tab
      botMean : {30, 100},          \* mean of screen[830:900, 0:1600]
      botVar : {50, 100} ]          \* summed channel deviation of that region

\* StateDetector._is_black_screen
IsBlackScreen(screen) == screen.mean < 15

\* StateDetector._is_loading
IsLoading(screen) == screen.loadVar > 2000 /\ screen.loadMean > 100

\* StateDetector._is_connection_error
IsConnectionError(screen) ==
    IF screen.mean > 100 THEN FALSE
    ELSE IF screen.connCenter < screen.mean + 30 THEN FALSE
    ELSE 2 * screen.connCenter > 3 * screen.mean

\* StateDetector._is_exit_menu: a template score above 0.7, or header colour
\* and CANCEL colour and popup structure together (BGR bands)
IsExitMenu(screen) ==
    LET has_notice_color ==
            /\ 60 < screen.notice.b /\ screen.notice.b < 120
            /\ 130 < screen.notice.g /\ screen.notice.g < 200
            /\ 110 < screen.notice.r /\ screen.notice.r < 180
        has_cancel ==
            /\ 80 < screen.cancel.b /\ screen.cancel.b < 150
            /\ 150 < screen.cancel.g /\ screen.cancel.g < 220
            /\ 150 < screen.cancel.r /\ screen.cancel.r < 220
        has_popup_structure == screen.popBright > 120 /\ screen.popStd < 60
    IN  \/ screen.tmpl > 70
        \/ (has_notice_color /\ has_cancel) /\ has_popup_structure

\* StateDetector._is_governor_profile
IsGovernorProfile(screen) ==
    IF screen.closeBright < 145 THEN FALSE
    ELSE screen.panelBright > 100 /\ screen.panelStd > 30

\* StateDetector._is_rankings_screen
IsRankingsScreen(screen) == screen.gold > 3 /\ screen.listStd > 40

\* StateDetector._detect_ranking_type
DetectRankingType(screen) ==
    IF screen.tab = "killpoints" THEN "RANKINGS_KILLPOINTS" ELSE "RANKINGS_POWER"

\* StateDetector._is_on_map
IsOnMap(screen) ==
    40 < screen.botMean /\ screen.botMean < 160 /\ screen.botVar > 80

\* "details" is the key of the entry detect_state puts there: a "reason"
\* (or what was seen) for its own results
StateDetectionResult(state, confidence) ==
    [state |-> state, confidence |-> confidence, details |-> "reason"]

NoResult == StateDetectionResult("NONE", 0)

\* StateDetector.detect_state with the idle/map check moved up
detect_state_map_first(screen) ==
    IF IsBlackScreen(screen) THEN StateDetectionResult("BLACK_SCREEN", 95)
    ELSE IF IsLoading(screen) THEN StateDetectionResult("LOADING_SCREEN", 85)
    ELSE IF IsConnectionError(screen) THEN StateDetectionResult("CONNECTION_ERROR", 90)
    ELSE IF IsOnMap(screen) THEN StateDetectionResult("IDLE_MAP", 80)
    ELSE IF IsExitMenu(screen) THEN StateDetectionResult("EXIT_MENU", 95)
    ELSE StateDetectionResult("UNKNOWN", 30)

\* StateDetector.detect_state
detect_state(screen) ==
    IF IsBlackScreen(screen) THEN StateDetectionResult("BLACK_SCREEN", 95)
    ELSE IF IsLoading(screen) THEN StateDetectionResult("LOADING_SCREEN", 85)
    ELSE IF IsConnectionError(screen) THEN StateDetectionResult("CONNECTION_ERROR", 90)
    ELSE IF IsExitMenu(screen) THEN StateDetectionResult("EXIT_MENU", 95)
    ELSE IF IsGovernorProfile(screen) THEN StateDetectionResult("GOVERNOR_PROFILE", 85)
    ELSE IF IsRankingsScreen(screen)
         THEN StateDetectionResult(DetectRankingType(screen), 85)
    ELSE IF IsOnMap(screen) THEN StateDetectionResult("IDLE_MAP", 80)
    ELSE StateDetectionResult("UNKNOWN", 30)

\* Arrays that are not a colour image: np.array(None), which has no shape
\* to unpack, and arrays of two dimensions (one channel), dark and bright
MalformedFrames ==
    { [shape |-> "0-d"], [shape |-> "2-d", mean |-> 10],
      [shape |-> "2-d", mean |-> 130] }

Readable(screen) == "shape" \notin DOMAIN screen

\* The call raised instead of returning a result
Raised == [state |-> "EXCEPTION", confidence |-> 0, details |-> "none"]

\* The call "self.detector.detect_state(screen)": detect_state has no
\* handler, so "h, w = screen.shape[:2]" raises for np.array(None), and
\* cv2.cvtColor in _is_loading raises for a one-channel array unless
\* _is_black_screen has answered before
Classified(screen) ==
    IF Readable(screen) THEN detect_state(screen)
    ELSE IF screen.shape = "2-d" /\ IsBlackScreen(screen)
    THEN StateDetectionResult("BLACK_SCREEN", 95)
    ELSE Raised

\* StateDetector._is_chat_expanded
IsChatExpanded(screen) ==
    screen.chat.b > 40 /\ screen.chat.g > 40 /\ screen.chat.r > 40

----------------------------------------------------------------------------
\* The other detectors the bots apply to a frame

\* GameNavigator._is_exit_menu_visible on the raw RGB capture: header colour
\* or CANCEL colour, with its own bands
IsExitMenuVisible(screen) ==
    LET has_notice_color ==
            /\ 100 < screen.notice.r /\ screen.notice.r < 200
            /\ 80 < screen.notice.g /\ screen.notice.g < 160
            /\ 40 < screen.notice.b /\ screen.notice.b < 120
        has_cancel_button == screen.cancel.b > 150 /\ screen.cancel.r < 150
    IN  has_notice_color \/ has_cancel_button

\* GameNavigator._is_chat_visible
IsChatVisible(screen) ==
    \/ IsChatExpanded(screen)
    \/ (screen.leftMean + 8 < screen.rightMean /\ screen.leftStd > 22)

\* SmartNavigator.is_at_idle: confidence in tenths, idle from 0.6 on
IsAtIdle(screen) ==
    LET confidence ==
            (IF screen.barR > 100 THEN 3 ELSE 0)
          + (IF screen.ctr > 80 THEN 3 ELSE 0)
          + (IF screen.xbtn = 0 THEN 4 ELSE 0)
    IN  confidence >= 6

\* StateDetector.has_popup of title_bot.py
HasPopup(screen) ==
    screen.centerB > screen.cornerB + 25 /\ screen.centerVar < 3500

\* StateDetector.is_exit_popup of title_bot.py
IsExitPopup(screen) ==
    IF ~HasPopup(screen) THEN FALSE
    ELSE IF screen.tbTmpl >= 66 THEN TRUE
    ELSE 150 < screen.tbMean /\ screen.tbMean < 230

\* The measurements of the idle map, for the classifier
IdleMeasures ==
    [ mean |-> 130, loadVar |-> 1000, loadMean |-> 150, connCenter |-> 130,
      tmpl |-> 0, notice |-> Colour(30, 30, 30), cancel |-> Colour(30, 30, 30),
      popBright |-> 100, popStd |-> 30, closeBright |-> 138,
      panelBright |-> 120, panelStd |-> 40, gold |-> 0, listStd |-> 50,
      tab |-> "power", botMean |-> 100, botVar |-> 100 ]

\* A frame of the idle map
IdleFrame ==
    IdleMeasures @@
    [ chat |-> Colour(30, 30, 30), \* mean colour of screen[100:500, 50:400]
      leftMean |-> 100,            \* gray mean of screen[620:880, 0:460]
      rightMean |-> 100,           \* gray mean of screen[620:880, 1140:1600]
      leftStd |-> 10,              \* gray deviation of the left region
      xbtn |-> 0,                  \* close buttons found with confidence >= 0.7
      barR |-> 120,                \* red mean of the bottom bar
      ctr |-> 100,                 \* mean of screen[300:600, 400:1200]
      centerB |-> 100,             \* mean of screen[200:700, 400:1200]
      cornerB |-> 100,             \* mean of screen[50:150, 50:150]
      centerVar |-> 1000,          \* gray variance of the centre
      tbTmpl |-> 0,                \* exit_cancel_button template score
      tbMean |-> 100,              \* gray mean of screen[350:550, 500:1100]
      preview |-> FALSE,           \* is_chat_preview_popup
      chatOpen |-> FALSE,          \* _is_chat_open_robust
      icons |-> TRUE,              \* alliance icon / panels found in the bottom bar
      idleNow |-> TRUE ]           \* reference comparison says "idle"

\* The exit dialog over the map, with the colours measured on the device
ExitFrame ==
    [ IdleFrame EXCEPT !.notice = Colour(145, 164, 89),
                       !.cancel = Colour(186, 181, 110),
                       !.popBright = 200, !.ctr = 180, !.centerB = 180,
                       !.tbTmpl = 80, !.tbMean = 180, !.idleNow = FALSE ]

\* The exit dialog rendered with a brown header and a cyan button, matched
\* by the template
ExitFrameBrown ==
    [ ExitFrame EXCEPT !.notice = Colour(150, 120, 80),
                       !.cancel = Colour(100, 200, 200), !.tmpl = 80 ]

\* A panel of no known kind that hides the bottom menu
PanelFrame ==
    [ IdleFrame EXCEPT !.botMean = 30, !.xbtn = 1, !.ctr = 60, !.centerB = 180,
                       !.icons = FALSE, !.idleNow = FALSE ]

\* A governor profile
ProfileFrame ==
    [ IdleFrame EXCEPT !.closeBright = 160, !.xbtn = 1, !.centerB = 180,
                       !.idleNow = FALSE ]

BlackFrame ==
    [ IdleFrame EXCEPT !.mean = 10, !.barR = 10, !.ctr = 10, !.centerB = 10,
                       !.cornerB = 10, !.icons = FALSE, !.idleNow = FALSE ]

LoadingFrame ==
    [ IdleFrame EXCEPT !.loadVar = 3000, !.icons = FALSE, !.idleNow = FALSE ]

ConnectionErrorFrame ==
    [ IdleFrame EXCEPT !.mean = 70, !.connCenter = 130, !.centerB = 130,
                       !.cornerB = 60, !.idleNow = FALSE ]

\* The map with the chat panel open
ChatFrame ==
    [ IdleFrame EXCEPT !.chat = Colour(80, 80, 80), !.chatOpen = TRUE,
                       !.idleNow = FALSE ]

\* What the device may show after an input or a wait
DeviceFrames ==
    { IdleFrame, ExitFrame, ExitFrameBrown, PanelFrame, ProfileFrame,
      BlackFrame, LoadingFrame, ConnectionErrorFrame, ChatFrame }

----------------------------------------------------------------------------
\* Device inputs

Tap(pos) == [kind |-> "tap", arg |-> pos]

\* "input keyevent <code>"
Key(code) == [kind |-> "key", arg |-> <<code>>]

NoAction == [kind |-> "none", arg |-> <<>>]

KEYCODE_ESCAPE == 111

KEYCODE_BACK == 4

\* The CANCEL button of the exit dialog, as the navigators tap it
CancelPos == <<779, 457>>

\* UI["exit_cancel"] of title_bot.py
exit_cancel == <<665, 505>>

\* No usable screenshot: the capture raised or returned None
NoShot == [mean |-> -1]

\* The guard state of the last escape key press: still the last input sent,
\* by which procedure (if the running call sent it), whether a re-check for
\* the exit dialog has run since, and what it found
NoEscape == [pending |-> FALSE, by |-> "none", checked |-> FALSE, found |-> FALSE]

Pressed(by) == [pending |-> TRUE, by |-> by, checked |-> FALSE, found |-> FALSE]

\* The guard state after procedure by sent input a
EscAfter(a, by) == IF a = Key(KEYCODE_ESCAPE) THEN Pressed(by) ELSE NoEscape

\* StateDetector.get_recovery_action
get_recovery_action(state) ==
    CASE state = "EXIT_MENU" -> [action |-> "tap", position |-> <<779, 457>>]
      [] state = "CONNECTION_ERROR" -> [action |-> "tap", position |-> <<800, 500>>]
      [] state = "CONFIRMATION_POPUP" -> [action |-> "tap", position |-> <<700, 450>>]
      [] state = "LOADING_SCREEN" -> [action |-> "wait", position |-> <<>>]
      [] state = "BLACK_SCREEN" -> [action |-> "wait_and_check", position |-> <<>>]
      [] state = "UNKNOWN" -> [action |-> "escape_sequence", position |-> <<800, 450>>]
      [] state = "GOVERNOR_PROFILE" -> [action |-> "tap", position |-> <<1050, 180>>]
      [] state = "RANKINGS_POWER" -> [action |-> "ready", position |-> <<>>]
      [] state = "IDLE_MAP" -> [action |-> "ready", position |-> <<>>]
      [] OTHER -> [action |-> "unknown", position |-> <<>>]

\* is_error_state
is_error_state(state) ==
    state \in {"CONNECTION_ERROR", "BLACK_SCREEN", "FROZEN", "UNKNOWN"}

\* is_popup_state
is_popup_state(state) ==
    state \in {"EXIT_MENU", "CONFIRMATION_POPUP", "EVENT_POPUP", "REWARD_POPUP"}

----------------------------------------------------------------------------
\* The thread that drives the device, one step per capture, input or wait

NoInner == [i |-> 0, k |-> 0, cont |-> "idle", initial |-> NoShot]

\* The threads of the remote bot that can drive the device
DeviceThreads == {"main", "checker"}

\* No input of another thread has been seen: below every classification count
NoMark == 0 - 1

\* No second procedure is in progress
NoParked == [thread |-> "none", proc |-> "none", pc |-> "idle", budget |-> 0,
             attempt |-> 0, inner |-> NoInner, shot |-> NoShot,
             result |-> NoResult, cycles |-> 0, outcome |-> "none"]

\* An input of the running thread reaches the device: the classification
\* the other thread holds is now older than the last input
MarkOthers ==
    IF parked.thread \in DeviceThreads
    THEN [mark EXCEPT ![parked.thread] = parked.cycles]
    ELSE mark

\* The programs that take the instance lock "rok_ui_<device>" before they
\* drive the emulator
Processes == {"rok_remote_bot", "title_bot", "kingdom_scanner_console"}

\* A process that has not reached its lock yet
NoProcess == [pc |-> "start", acquired |-> FALSE, actions |-> 0]

OrderInit ==
    /\ parked = NoParked
    /\ switches = 0

\* No process has started; the bots are run on Windows
LockInit ==
    /\ msvcrt = TRUE
    /\ file_lock = "none"
    /\ procs = [p \in Processes |-> NoProcess]

\* The keys of the requests seen in the chat ("tag:title:hash of the line")
Keys == {"k1", "k2", "k3"}

\* TitleBot.__init__: nothing queued, nothing processed
QueueInit ==
    /\ pending_requests = <<>>
    /\ pending_keys = {}
    /\ processed_requests = {}
    /\ failed_attempts = [k \in Keys |-> 0]
    /\ tries = [k \in Keys |-> 0]
    /\ dup = {}

\* No read_text call has been made
NoOcrRet == [op |-> "none"]

\* No OCR pass has been parsed
NoChat == [op |-> "none"]

\* VisionSystem.__init__: the OCR cache is empty
VisionInit ==
    /\ ocr_cache = [k \in {} |-> 0]
    /\ ocr_ret = NoOcrRet
    /\ chat = NoChat

\* ensure_idle_state has not been called
NoEnsure == [pc |-> "none"]

\* The processes that run ADB commands through ADBHelper._run for one device
AdbClients == {"c1", "c2", "c3"}

\* A process that runs no ADB command
NoCommand == [pc |-> "idle", locked |-> FALSE, waited |-> 0, ran |-> 0]

\* No thread of the remote bot has fetched a command
NoFetched == [by |-> "none", command |-> "none", handled |-> FALSE]

\* _bot_commands holds no command for the kingdom and no scan has been run
NoRemote == [pending |-> "none", issued |-> 0, fetched |-> NoFetched,
             stop_seen |-> FALSE, skip_navigation |-> FALSE, scanned_count |-> 0]

EnsureInit ==
    /\ ensure = NoEnsure
    /\ adb = [lock |-> "none", cmd |-> [p \in AdbClients |-> NoCommand]]
    /\ remote = NoRemote

ExtInit ==
    /\ OrderInit
    /\ LockInit
    /\ QueueInit
    /\ VisionInit
    /\ EnsureInit

DeviceInit ==
    /\ proc = "none"
    /\ pc = "idle"
    /\ budget = 0
    /\ attempt = 0
    /\ inner = NoInner
    /\ shot = NoShot
    /\ sent = NoAction
    /\ esc = NoEscape
    /\ cycles = 0
    /\ outcome = "none"
    /\ mark = [t \in DeviceThreads |-> NoMark]

\* RokRemoteBot.__init__: offline, no scanner, no thread started
RemoteInit ==
    /\ caller = "none"
    /\ bot_state = "offline"
    /\ main_pc = "none"
    /\ checker_pc = "none"
    /\ scanner = FALSE
    /\ stop_scan = FALSE
    /\ ExtInit

\* The threads that call the tracker concurrently
Threads == {"t1", "t2"}

NoCall == [pc |-> "idle", op |-> "none", arg |-> <<>>, timestamp |-> NoTime,
           read |-> 0, ret |-> "none", overlap |-> FALSE]

\* "self._lock = threading.Lock()", nobody inside
ConcInit ==
    /\ lock = "free"
    /\ threads = [t \in Threads |-> NoCall]
    /\ wins = [p \in Pairs |-> 0]
    /\ won = 0

\* The input reaches the device, which shows some frame afterwards
Sent(a) ==
    /\ sent' = a
    /\ frame' \in DeviceFrames
    /\ esc' = EscAfter(a, proc)
    /\ mark' = MarkOthers

\* No input reaches the device in this step
NotSent ==
    /\ sent' = NoAction
    /\ UNCHANGED <<frame, esc, mark>>

\* time.sleep of a wait action: the screen may change meanwhile
Waited ==
    /\ sent' = NoAction
    /\ frame' \in DeviceFrames
    /\ UNCHANGED <<esc, mark>>

Goto(label) ==
    /\ pc' = label
    /\ UNCHANGED <<proc, budget, outcome>>

\* The call returns; proc keeps the name of the procedure that ran last
Return(value) ==
    /\ pc' = "idle"
    /\ outcome' = value
    /\ UNCHANGED <<proc, budget>>

Call(name, label, n) ==
    /\ proc' = name
    /\ pc' = label
    /\ budget' = n
    /\ attempt' = 0
    /\ inner' = NoInner
    /\ shot' = NoShot
    /\ result' = NoResult
    /\ cycles' = 0
    /\ outcome' = "running"
    /\ sent' = NoAction
    /\ esc' = [esc EXCEPT !.by = "none"]
    /\ UNCHANGED <<frame, idleVars, mark>>

\* A variant in which running out of attempts is an exception
AfterLoopRaises == "raised"

\* "return False" after the loop of a recovery call
AfterLoop == "false"

\* A variant of the loop condition that allows one pass more
AttemptsLeftOffByOne(n, max) == n <= max

\* "while self.recovery_attempts < self.max_attempts" / "for attempt in range(max_attempts)"
AttemptsLeft(n, max) == n < max

----------------------------------------------------------------------------
\* IntelligentRecovery (game_state.py)

max_attempts == 5

CallRecoverToIdle ==
    /\ pc = "idle"
    /\ Call("recover_to_idle", "ir_loop", max_attempts)

\* One pass of the loop of recover_to_idle up to the recovery action:
\* screenshot (which may raise), detect_state, return on IDLE_MAP
RecoverToIdleClassify ==
    /\ proc = "recover_to_idle" /\ pc = "ir_loop"
    /\ UNCHANGED <<idleVars, inner>>
    /\ IF AttemptsLeft(attempt, budget)
       THEN /\ attempt' = attempt + 1
            /\ \/ /\ shot' = NoShot
                  /\ Waited
                  /\ Goto("ir_loop")
                  /\ UNCHANGED <<result, cycles>>
               \/ /\ shot' = frame
                  /\ result' = detect_state(frame)
                  /\ cycles' = cycles + 1
                  /\ NotSent
                  /\ IF result'.state = "IDLE_MAP"
                     THEN Return("true")
                     ELSE Goto("ir_act")
       ELSE /\ Return(AfterLoop)
            /\ NotSent
            /\ UNCHANGED <<attempt, shot, result, cycles>>

\* IntelligentRecovery._execute_action: the tap, the wait, or the first step
\* of the escape sequence; an input that raises ends the action
ExecuteAction ==
    /\ proc = "recover_to_idle" /\ pc = "ir_act"
    /\ UNCHANGED <<idleVars, attempt, inner, shot, result, cycles>>
    /\ LET action == get_recovery_action(result.state)
       IN  CASE action.action = "tap" ->
                  /\ Sent(Tap(action.position)) \/ NotSent
                  /\ Goto("ir_loop")
             [] action.action \in {"wait", "wait_and_check"} ->
                  /\ Waited
                  /\ Goto("ir_loop")
             [] action.action = "escape_sequence" ->
                  \/ Sent(Key(KEYCODE_ESCAPE)) /\ Goto("ir_seq")
                  \/ NotSent /\ Goto("ir_loop")
             [] OTHER ->
                  /\ NotSent
                  /\ Goto("ir_loop")

\* The ("tap", (800, 450)) step of the escape sequence
ExecuteSequenceTap ==
    /\ proc = "recover_to_idle" /\ pc = "ir_seq"
    /\ UNCHANGED <<idleVars, attempt, inner, shot, result, cycles>>
    /\ Sent(Tap(get_recovery_action(result.state).position)) \/ NotSent
    /\ Goto("ir_loop")

----------------------------------------------------------------------------
\* GameNavigator (navigation_positions.py)

\* governor_profile["close"], rankings_panel["close"]
ClosePosition(state) ==
    IF state = "GOVERNOR_PROFILE" THEN <<1451, 85>> ELSE <<1395, 55>>

\* "for pos in [(800, 450), (400, 400), (1200, 400)]"
EmptyAreaTaps == << <<800, 450>>, <<400, 400>>, <<1200, 400>> >>

CallSmartRecoverToIdle ==
    /\ pc = "idle"
    /\ \E n \in 1..MaxAttempts : Call("smart_recover_to_idle", "sr_loop", n)

\* GameNavigator.get_current_state(force_refresh=True): a capture that
\* raises yields UNKNOWN with confidence 0
get_current_state(captured) ==
    IF captured = NoShot \/ Classified(captured) = Raised
    THEN [StateDetectionResult("UNKNOWN", 0) EXCEPT !.details = "error"]
    ELSE Classified(captured)

\* Where smart_recover_to_idle goes for a detected state
SmartRecoverBranch(state) ==
    CASE is_error_state(state) -> "he_act"
      [] is_popup_state(state) -> "dp_act"
      [] state \in {"GOVERNOR_PROFILE", "GOVERNOR_MORE_INFO",
                    "RANKINGS_POWER", "RANKINGS_KILLPOINTS"} -> "sr_close"
      [] state = "LOADING_SCREEN" -> "sr_wait"
      [] OTHER -> "pe_key"

\* One pass of the loop of smart_recover_to_idle up to the handling of the
\* detected state
SmartRecoverClassify ==
    /\ proc = "smart_recover_to_idle" /\ pc = "sr_loop"
    /\ UNCHANGED idleVars
    /\ NotSent
    /\ IF AttemptsLeft(attempt, budget)
       THEN /\ attempt' = attempt + 1
            /\ shot' \in {frame, NoShot}
            /\ result' = get_current_state(shot')
            /\ cycles' = cycles + 1
            /\ IF result'.state = "IDLE_MAP"
               THEN Return("true") /\ UNCHANGED inner
               ELSE /\ Goto(SmartRecoverBranch(result'.state))
                    /\ inner' = [NoInner EXCEPT !.cont = "taps"]
       ELSE /\ Return(AfterLoop)
            /\ UNCHANGED <<attempt, inner, shot, result, cycles>>

\* GameNavigator.handle_error_state: the wait, the tap, or the entry into
\* the escape sequence
HandleErrorState ==
    /\ proc = "smart_recover_to_idle" /\ pc = "he_act"
    /\ UNCHANGED <<idleVars, attempt, shot, result, cycles>>
    /\ LET action == get_recovery_action(result.state)
       IN  CASE action.action = "wait" ->
                  /\ Waited
                  /\ Goto("sr_loop")
                  /\ UNCHANGED inner
             [] action.action = "tap" ->
                  /\ UNCHANGED inner
                  /\ \/ Sent(Tap(action.position)) /\ Goto("sr_loop")
                     \/ NotSent /\ Return("raised")
             [] action.action = "escape_sequence" ->
                  /\ NotSent
                  /\ Goto("pe_key")
                  /\ inner' = [inner EXCEPT !.cont = "taps"]
             [] OTHER ->
                  /\ NotSent
                  /\ Goto("sr_loop")
                  /\ UNCHANGED inner

\* GameNavigator._press_escape_safe, the key: _press_key swallows a failure
PressEscapeSafe ==
    /\ proc = "smart_recover_to_idle" /\ pc = "pe_key"
    /\ UNCHANGED <<idleVars, attempt, inner, shot, result, cycles>>
    /\ Sent(Key(KEYCODE_ESCAPE)) \/ NotSent
    /\ Goto("pe_check")

\* GameNavigator._press_escape_safe, the check: _is_exit_menu_visible takes
\* its own capture and answers False when that raises
PressEscapeSafeCheck ==
    /\ proc = "smart_recover_to_idle" /\ pc = "pe_check"
    /\ UNCHANGED <<idleVars, attempt, inner, result, cycles, frame, mark>>
    /\ sent' = NoAction
    /\ \/ /\ shot' = NoShot
          /\ UNCHANGED esc
          /\ Goto(inner.cont)
       \/ /\ shot' = frame
          /\ esc' = IF esc.pending
                    THEN [esc EXCEPT !.checked = TRUE,
                                     !.found = IsExitMenuVisible(frame)]
                    ELSE esc
          /\ IF IsExitMenuVisible(frame)
             THEN Goto("pe_cancel")
             ELSE Goto(inner.cont)

\* GameNavigator._click_cancel_exit_menu after the check: a failure is swallowed
PressEscapeSafeCancel ==
    /\ proc = "smart_recover_to_idle" /\ pc = "pe_cancel"
    /\ UNCHANGED <<idleVars, attempt, inner, shot, result, cycles>>
    /\ Sent(Tap(CancelPos)) \/ NotSent
    /\ Goto(inner.cont)

\* The taps on empty areas that follow the escape
TapEmptyAreas ==
    /\ proc = "smart_recover_to_idle" /\ pc = "taps"
    /\ UNCHANGED <<idleVars, attempt, shot, result, cycles>>
    /\ \/ /\ Sent(Tap(EmptyAreaTaps[inner.i + 1]))
          /\ inner' = [inner EXCEPT !.i = @ + 1]
          /\ IF inner.i + 1 < Len(EmptyAreaTaps)
             THEN Goto("taps")
             ELSE Goto("sr_loop")
       \/ /\ NotSent
          /\ Return("raised")
          /\ UNCHANGED inner

\* GameNavigator.dismiss_popup
DismissPopup ==
    /\ proc = "smart_recover_to_idle" /\ pc = "dp_act"
    /\ UNCHANGED <<idleVars, attempt, shot, result, cycles>>
    /\ CASE result.state = "EXIT_MENU" ->
              /\ Sent(Tap(CancelPos)) \/ NotSent
              /\ Goto("sr_loop")
              /\ UNCHANGED inner
         [] result.state = "CONFIRMATION_POPUP" ->
              /\ UNCHANGED inner
              /\ \/ Sent(Tap(<<700, 450>>)) /\ Goto("sr_loop")
                 \/ NotSent /\ Return("raised")
         [] result.state \in {"EVENT_POPUP", "REWARD_POPUP"} ->
              /\ UNCHANGED inner
              /\ \/ Sent(Tap(<<1050, 180>>)) /\ Goto("sr_loop")
                 \/ NotSent /\ Return("raised")
         [] OTHER ->
              /\ NotSent
              /\ Goto("pe_key")
              /\ inner' = [inner EXCEPT !.cont = "sr_loop"]

\* "self.tap(governor_profile["close"])" / "self.tap(rankings_panel["close"])"
\* (the position before humanize_position moves it by a few pixels)
SmartRecoverClose ==
    /\ proc = "smart_recover_to_idle" /\ pc = "sr_close"
    /\ UNCHANGED <<idleVars, attempt, inner, shot, result, cycles>>
    /\ \/ Sent(Tap(ClosePosition(result.state))) /\ Goto("sr_loop")
       \/ NotSent /\ Return("raised")

\* "elif result.state == GameState.LOADING_SCREEN: time.sleep(2.0)"
SmartRecoverWait ==
    /\ proc = "smart_recover_to_idle" /\ pc = "sr_wait"
    /\ UNCHANGED <<idleVars, attempt, inner, shot, result, cycles>>
    /\ Waited
    /\ Goto("sr_loop")

----------------------------------------------------------------------------
\* SmartNavigator (smart_navigator.py)

\* "max_attempts: int = 3" of close_current_popup
CloseAttempts == 3

\* "for _ in range(3)" of return_to_idle
BackRetries == 3

OUTSIDE_TAP_POSITIONS == << <<100, 450>>, <<1500, 450>>, <<800, 50>> >>

\* The close button find_x_buttons reports first (the player profile's)
XButton == <<1050, 180>>

CallReturnToIdle ==
    /\ pc = "idle"
    /\ \E n \in 1..MaxAttempts : Call("return_to_idle", "rt_loop", n)

\* One pass of the loop of return_to_idle up to close_current_popup:
\* capture_screen (which may raise), is_at_idle
ReturnToIdleClassify ==
    /\ proc = "return_to_idle" /\ pc = "rt_loop"
    /\ UNCHANGED <<idleVars, result>>
    /\ NotSent
    /\ IF AttemptsLeft(attempt, budget)
       THEN /\ attempt' = attempt + 1
            /\ \/ /\ Return("raised")
                  /\ UNCHANGED <<shot, inner, cycles>>
               \/ /\ shot' = frame
                  /\ cycles' = cycles + 1
                  /\ IF IsAtIdle(frame)
                     THEN Return("true") /\ UNCHANGED inner
                     ELSE /\ Goto("cp_x")
                          /\ inner' = [NoInner EXCEPT !.initial = frame]
       ELSE /\ Return(AfterLoop)
            /\ UNCHANGED <<attempt, inner, shot, cycles>>

\* close_current_popup, head of its loop and strategy 1: tap the close
\* button found on the screen held; "return False" after the last attempt
ClosePopupTapX ==
    /\ proc = "return_to_idle" /\ pc = "cp_x"
    /\ UNCHANGED <<idleVars, result, attempt, shot, cycles>>
    /\ IF inner.k < CloseAttempts
       THEN /\ inner' = [inner EXCEPT !.k = @ + 1, !.i = 0]
            /\ IF shot.xbtn > 0
               THEN /\ Sent(Tap(XButton)) \/ NotSent
                    /\ Goto("cp_x_check")
               ELSE /\ NotSent
                    /\ Goto("cp_back")
       ELSE /\ inner' = [inner EXCEPT !.i = 0]
            /\ NotSent
            /\ Goto("rt_back")

\* Strategy 1, the check after the tap
ClosePopupCheckX ==
    /\ proc = "return_to_idle" /\ pc = "cp_x_check"
    /\ UNCHANGED <<idleVars, result, attempt, inner>>
    /\ NotSent
    /\ \/ /\ Return("raised")
          /\ UNCHANGED <<shot, cycles>>
       \/ /\ cycles' = cycles + 1
          /\ IF frame # inner.initial
             THEN IF frame.xbtn < shot.xbtn
                  THEN Goto("rt_loop") /\ shot' = frame
                  ELSE Goto("cp_x") /\ shot' = frame
             ELSE Goto("cp_back") /\ UNCHANGED shot

\* Strategy 2: the Android back button
ClosePopupBack ==
    /\ proc = "return_to_idle" /\ pc = "cp_back"
    /\ UNCHANGED <<idleVars, result, attempt, inner, shot, cycles>>
    /\ Sent(Key(KEYCODE_BACK)) \/ NotSent
    /\ Goto("cp_back_check")

\* Strategy 2, the check: any change of the screen counts as closed
ClosePopupCheckBack ==
    /\ proc = "return_to_idle" /\ pc = "cp_back_check"
    /\ UNCHANGED <<idleVars, result, attempt, inner>>
    /\ NotSent
    /\ \/ /\ Return("raised")
          /\ UNCHANGED <<shot, cycles>>
       \/ /\ cycles' = cycles + 1
          /\ shot' = frame
          /\ IF frame # shot THEN Goto("rt_loop") ELSE Goto("cp_out")

\* Strategy 3: tap outside the popup
ClosePopupTapOutside ==
    /\ proc = "return_to_idle" /\ pc = "cp_out"
    /\ UNCHANGED <<idleVars, result, attempt, shot, cycles>>
    /\ Sent(Tap(OUTSIDE_TAP_POSITIONS[inner.i + 1])) \/ NotSent
    /\ inner' = [inner EXCEPT !.i = @ + 1]
    /\ Goto("cp_out_check")

\* Strategy 3, the check: a changed screen that is idle ends the call to
\* close_current_popup, any other change ends the taps of this attempt
ClosePopupCheckOutside ==
    /\ proc = "return_to_idle" /\ pc = "cp_out_check"
    /\ UNCHANGED <<idleVars, result, attempt, inner>>
    /\ NotSent
    /\ \/ /\ Return("raised")
          /\ UNCHANGED <<shot, cycles>>
       \/ /\ cycles' = cycles + 1
          /\ shot' = frame
          /\ IF frame # shot
             THEN IF IsAtIdle(frame) THEN Goto("rt_loop") ELSE Goto("cp_x")
             ELSE IF inner.i < Len(OUTSIDE_TAP_POSITIONS)
                  THEN Goto("cp_out")
                  ELSE Goto("cp_x")

\* return_to_idle after close_current_popup returned False: back button
ReturnToIdleBack ==
    /\ proc = "return_to_idle" /\ pc = "rt_back"
    /\ UNCHANGED <<idleVars, result, attempt, shot, cycles>>
    /\ Sent(Key(KEYCODE_BACK)) \/ NotSent
    /\ inner' = [inner EXCEPT !.i = @ + 1]
    /\ Goto("rt_back_check")

\* ... capture and is_at_idle after each back button
ReturnToIdleCheckBack ==
    /\ proc = "return_to_idle" /\ pc = "rt_back_check"
    /\ UNCHANGED <<idleVars, result, attempt, inner>>
    /\ NotSent
    /\ \/ /\ Return("raised")
          /\ UNCHANGED <<shot, cycles>>
       \/ /\ cycles' = cycles + 1
          /\ shot' = frame
          /\ IF IsAtIdle(frame) THEN Return("true")
             ELSE IF inner.i < BackRetries THEN Goto("rt_back")
             ELSE Goto("rt_loop")

----------------------------------------------------------------------------
\* TitleBot (title_bot.py)

\* UI["reopen_chat"], UI["chat_open_button"]
reopen_chat == <<180, 850>>

\* UI["return_to_city"]
return_to_city == <<75, 820>>

\* "candidates" of ensure_chat_open
ChatCandidates ==
    << reopen_chat, reopen_chat, <<160, 860>>, <<120, 860>>, <<90, 860>>,
       <<70, 860>>, <<55, 860>>, <<55, 840>> >>

\* Where a procedure goes on when handle_exit_popup returns, and where the
\* handle_exit_popup it may call next returns to
AfterPopupCheck(label) == IF label = "hx_again" THEN "hx_check" ELSE label

ContinueAt(label) ==
    IF label = "return"
    THEN Return("done") /\ UNCHANGED inner
    ELSE /\ Goto(AfterPopupCheck(label))
         /\ inner' = IF label = "hx_again"
                     THEN [inner EXCEPT !.cont = "ec_shot"] ELSE inner

CallSafeEscape ==
    /\ pc = "idle"
    /\ Call("safe_escape", "se_key", 0)

\* TitleBot.safe_escape: press_escape
SafeEscape ==
    /\ proc = "safe_escape" /\ pc = "se_key"
    /\ UNCHANGED <<idleVars, result, attempt, shot, cycles>>
    /\ Sent(Key(KEYCODE_ESCAPE)) \/ NotSent
    /\ Goto("hx_check")
    /\ inner' = [inner EXCEPT !.cont = "return"]

\* TitleBot.handle_exit_popup: screenshot (None: return False), is_exit_popup
HandleExitPopup ==
    /\ proc \in {"safe_escape", "ensure_chat_open", "TitleBot.recover_to_idle"}
    /\ pc = "hx_check"
    /\ UNCHANGED <<idleVars, result, attempt, cycles, frame, mark>>
    /\ sent' = NoAction
    /\ \/ /\ shot' = NoShot
          /\ UNCHANGED esc
          /\ ContinueAt(inner.cont)
       \/ /\ shot' = frame
          /\ esc' = IF esc.pending
                    THEN [esc EXCEPT !.checked = TRUE, !.found = IsExitPopup(frame)]
                    ELSE esc
          /\ IF IsExitPopup(frame)
             THEN Goto("hx_cancel") /\ UNCHANGED inner
             ELSE ContinueAt(inner.cont)

\* ... "self.adb.tap(*UI["exit_cancel"], delay=0.5)"
HandleExitPopupCancel ==
    /\ proc \in {"safe_escape", "ensure_chat_open", "TitleBot.recover_to_idle"}
    /\ pc = "hx_cancel"
    /\ UNCHANGED <<idleVars, result, attempt, shot, cycles>>
    /\ Sent(Tap(exit_cancel)) \/ NotSent
    /\ ContinueAt(inner.cont)

\* "for attempt in range(6)" of TitleBot.recover_to_idle
TitleRecoverAttempts == 6

CallTitleRecoverToIdle ==
    /\ pc = "idle"
    /\ Call("TitleBot.recover_to_idle", "tr_loop", TitleRecoverAttempts)

\* Head of the loop of TitleBot.recover_to_idle: on to handle_exit_popup,
\* or "return False" after the last attempt
TitleRecoverLoop ==
    /\ proc = "TitleBot.recover_to_idle" /\ pc = "tr_loop"
    /\ UNCHANGED <<idleVars, result, shot, cycles>>
    /\ NotSent
    /\ IF AttemptsLeft(attempt, budget)
       THEN /\ attempt' = attempt + 1
            /\ Goto("hx_check")
            /\ inner' = [NoInner EXCEPT !.cont = "tr_shot"]
       ELSE /\ Return(AfterLoop)
            /\ UNCHANGED <<attempt, inner>>

\* ... the screenshot (None: sleep and continue) and the checks on it:
\* idle by the reference comparison (an answer read from the screen)
\* returns True, every other branch goes on to safe_escape
TitleRecoverShot ==
    /\ proc = "TitleBot.recover_to_idle" /\ pc = "tr_shot"
    /\ UNCHANGED <<idleVars, result, attempt, inner>>
    /\ \/ /\ shot' = NoShot
          /\ Waited
          /\ Goto("tr_loop")
          /\ UNCHANGED cycles
       \/ /\ shot' = frame
          /\ cycles' = cycles + 1
          /\ NotSent
          /\ \E idle \in BOOLEAN :
                IF idle THEN Return("true") ELSE Goto("tr_esc")

\* ... "self.safe_escape()": press_escape, then handle_exit_popup
TitleRecoverEscape ==
    /\ proc = "TitleBot.recover_to_idle" /\ pc = "tr_esc"
    /\ UNCHANGED <<idleVars, result, attempt, shot, cycles>>
    /\ Sent(Key(KEYCODE_ESCAPE)) \/ NotSent
    /\ Goto("hx_check")
    /\ inner' = [inner EXCEPT !.cont = "tr_loop"]

CallEnsureChatOpen ==
    /\ pc = "idle"
    /\ Call("ensure_chat_open", "ec_shot", 0)

\* "screen = self.adb.screenshot_cv2(); if screen is None: return False",
\* at the start (inner.i = 0) and after each of the four clean-up stages
EnsureChatScreenshot ==
    /\ proc = "ensure_chat_open" /\ pc = "ec_shot"
    /\ UNCHANGED <<idleVars, result, attempt, cycles>>
    /\ NotSent
    /\ \/ /\ shot' = NoShot
          /\ Return("false")
          /\ UNCHANGED inner
       \/ /\ shot' = frame
          /\ Goto("ec_stage")
          /\ inner' = [inner EXCEPT !.i = @ + 1]

\* The first clean-up stage from s on whose condition the screen held meets:
\* 1 exit popup, 2 chat preview popup, 3 any popup, 4 no bottom icons,
\* 5 none (open the chat)
FirstStage(s, screen) ==
    IF s <= 1 /\ IsExitPopup(screen) THEN 1
    ELSE IF s <= 2 /\ screen.preview THEN 2
    ELSE IF s <= 3 /\ HasPopup(screen) THEN 3
    ELSE IF s <= 4 /\ ~screen.chatOpen /\ ~screen.icons THEN 4
    ELSE 5

\* ensure_chat_open from one screenshot to the next input
EnsureChatStage ==
    /\ proc = "ensure_chat_open" /\ pc = "ec_stage"
    /\ UNCHANGED <<idleVars, result, attempt, shot, cycles>>
    /\ LET s == FirstStage(inner.i, shot)
       IN  CASE s = 1 ->
                  /\ Sent(Tap(exit_cancel)) \/ NotSent
                  /\ Goto("ec_shot")
                  /\ inner' = [inner EXCEPT !.i = 1]
             [] s = 2 ->
                  /\ Sent(Key(KEYCODE_ESCAPE)) \/ NotSent
                  /\ Goto("hx_check")
                  /\ inner' = [inner EXCEPT !.i = 2, !.cont = "ec_shot"]
             [] s = 3 ->
                  \/ /\ frame.idleNow
                     /\ NotSent
                     /\ Goto("ec_shot")
                     /\ inner' = [inner EXCEPT !.i = 3]
                  \/ /\ Sent(Key(KEYCODE_ESCAPE)) \/ NotSent
                     /\ Goto("hx_check")
                     /\ inner' = [inner EXCEPT !.i = 3, !.cont = "hx_again"]
             [] s = 4 ->
                  /\ NotSent
                  /\ Goto("rc_snap")
                  /\ inner' = [inner EXCEPT !.i = 4]
             [] OTHER ->
                  /\ NotSent
                  /\ inner' = [inner EXCEPT !.i = 5, !.k = 0]
                  /\ IF shot.chatOpen THEN Return("true") ELSE Goto("ec_tap")

\* TitleBot._return_to_city: close a popup first, escape and exit check
ReturnToCitySnap ==
    /\ proc = "ensure_chat_open" /\ pc = "rc_snap"
    /\ UNCHANGED <<idleVars, result, attempt, cycles>>
    /\ \/ /\ shot' = NoShot
          /\ NotSent
          /\ Goto("rc_tap")
          /\ inner' = [inner EXCEPT !.k = 0]
       \/ /\ shot' = frame
          /\ IF HasPopup(frame)
             THEN /\ Sent(Key(KEYCODE_ESCAPE)) \/ NotSent
                  /\ Goto("hx_check")
                  /\ inner' = [inner EXCEPT !.k = 0, !.cont = "rc_tap"]
             ELSE /\ NotSent
                  /\ Goto("rc_tap")
                  /\ inner' = [inner EXCEPT !.k = 0]

\* ... the two taps on the return-to-city button
ReturnToCityTap ==
    /\ proc = "ensure_chat_open" /\ pc = "rc_tap"
    /\ UNCHANGED <<idleVars, result, attempt, shot, cycles>>
    /\ Sent(Tap(return_to_city)) \/ NotSent
    /\ inner' = [inner EXCEPT !.k = @ + 1]
    /\ IF inner.k + 1 < 2 THEN Goto("rc_tap") ELSE Goto("ec_shot")

\* The candidate loop of ensure_chat_open: tap a candidate unless the chat
\* is already open; the loop ends when the timeout has passed
EnsureChatTap ==
    /\ proc = "ensure_chat_open" /\ pc = "ec_tap"
    /\ UNCHANGED <<idleVars, result, attempt, shot, cycles>>
    /\ IF shot # NoShot /\ shot.chatOpen
       THEN /\ NotSent
            /\ Return("true")
            /\ UNCHANGED inner
       ELSE /\ Sent(Tap(ChatCandidates[inner.k + 1])) \/ NotSent
            /\ inner' = [inner EXCEPT !.k = @ + 1]
            /\ Goto("ec_tap_shot")

\* Where the candidate loop goes after candidate number k
NextCandidate(k) == IF k < MaxChatTaps THEN "ec_tap" ELSE "ec_fallback"

\* ... the screenshot after the tap, and the escape when a popup came up
EnsureChatTapCheck ==
    /\ proc = "ensure_chat_open" /\ pc = "ec_tap_shot"
    /\ UNCHANGED <<idleVars, result, attempt, cycles>>
    /\ \/ /\ shot' = NoShot
          /\ NotSent
          /\ Goto(NextCandidate(inner.k))
          /\ UNCHANGED inner
       \/ /\ shot' = frame
          /\ IF frame.chatOpen
             THEN NotSent /\ Return("true") /\ UNCHANGED inner
             ELSE IF HasPopup(frame)
             THEN /\ Sent(Key(KEYCODE_ESCAPE)) \/ NotSent
                  /\ Goto("hx_check")
                  /\ inner' = [inner EXCEPT !.cont = NextCandidate(inner.k)]
             ELSE /\ NotSent
                  /\ Goto(NextCandidate(inner.k))
                  /\ UNCHANGED inner

\* The fallback of ensure_chat_open: with a popup on the last screenshot,
\* press_escape, then tap reopen_chat
EnsureChatFallback ==
    /\ proc = "ensure_chat_open" /\ pc = "ec_fallback"
    /\ UNCHANGED <<idleVars, result, attempt, inner, shot, cycles>>
    /\ IF shot # NoShot /\ HasPopup(shot)
       THEN /\ Sent(Key(KEYCODE_ESCAPE)) \/ NotSent
            /\ Goto("ec_reopen")
       ELSE /\ NotSent
            /\ Return(IF shot # NoShot /\ shot.chatOpen THEN "true" ELSE "false")

\* ... "self.adb.tap(*UI["reopen_chat"], delay=0.5)" and the last screenshot
EnsureChatReopen ==
    /\ proc = "ensure_chat_open" /\ pc = "ec_reopen"
    /\ UNCHANGED <<idleVars, result, attempt, inner, cycles>>
    /\ Sent(Tap(reopen_chat)) \/ NotSent
    /\ \/ shot' = NoShot /\ Return("false")
       \/ shot' = frame' /\ Return(IF frame'.chatOpen THEN "true" ELSE "false")

----------------------------------------------------------------------------
\* GameNavigator.debug_chat_probe and open_chat (navigation_positions.py)

\* "for i in range(2)" of debug_chat_probe
ProbeEscapes == 2

\* "candidate_positions" of open_chat
OpenChatPositions == << <<80, 760>>, <<100, 780>>, <<300, 850>> >>

\* "expand_positions" of debug_chat_probe
ExpandPositions == << <<40, 90>>, <<25, 70>>, <<40, 40>>, <<50, 100>> >>

CallDebugChatProbe ==
    /\ pc = "idle"
    /\ Call("debug_chat_probe", "dp_esc", 0)

\* "self.adb.secure_adb_shell("input keyevent 111")", twice; an exception
\* anywhere in debug_chat_probe ends it
ProbeEscape ==
    /\ proc = "debug_chat_probe" /\ pc = "dp_esc"
    /\ UNCHANGED <<idleVars, result, attempt, shot, cycles>>
    /\ \/ /\ Sent(Key(KEYCODE_ESCAPE))
          /\ inner' = [inner EXCEPT !.i = @ + 1]
          /\ IF inner.i + 1 < ProbeEscapes THEN Goto("dp_esc") ELSE Goto("dp_shot")
       \/ /\ NotSent
          /\ Return("raised")
          /\ UNCHANGED inner

\* The BEFORE capture (on to open_chat) and the AFTER capture (on to the
\* expand taps unless the chat is expanded)
ProbeCapture ==
    /\ proc = "debug_chat_probe" /\ pc = "dp_shot"
    /\ UNCHANGED <<idleVars, result, attempt, cycles>>
    /\ NotSent
    /\ \/ /\ shot' = NoShot
          /\ Return("raised")
          /\ UNCHANGED inner
       \/ /\ shot' = frame
          /\ IF inner.cont = "idle"
             THEN /\ Goto("oc_tap")
                  /\ inner' = [inner EXCEPT !.k = 0, !.cont = "dp_shot"]
             ELSE IF IsChatExpanded(frame)
             THEN Return("done") /\ UNCHANGED inner
             ELSE /\ Goto("dp_expand")
                  /\ inner' = [inner EXCEPT !.k = 0]

\* GameNavigator.open_chat(force=True): tap a candidate; a tap that raises
\* moves on to the next
OpenChatDone ==
    IF proc = "open_chat" THEN Return("true") ELSE Goto("dp_shot")

OpenChatTap ==
    /\ proc \in {"debug_chat_probe", "open_chat"} /\ pc = "oc_tap"
    /\ UNCHANGED <<idleVars, result, attempt, shot, cycles>>
    /\ inner' = [inner EXCEPT !.k = @ + 1]
    /\ \/ /\ Sent(Tap(OpenChatPositions[inner.k + 1]))
          /\ Goto("oc_check")
       \/ /\ NotSent
          /\ IF inner.k + 1 < Len(OpenChatPositions)
             THEN Goto("oc_tap") ELSE OpenChatDone

\* ... the verification after the tap: done when the capture raises or the
\* chat is visible
OpenChatCheck ==
    /\ proc \in {"debug_chat_probe", "open_chat"} /\ pc = "oc_check"
    /\ UNCHANGED <<idleVars, result, attempt, inner, cycles>>
    /\ NotSent
    /\ \/ /\ shot' = NoShot
          /\ OpenChatDone
       \/ /\ shot' = frame
          /\ IF IsChatVisible(frame) \/ inner.k >= Len(OpenChatPositions)
             THEN OpenChatDone ELSE Goto("oc_tap")

\* The expand taps of debug_chat_probe
ProbeExpandTap ==
    /\ proc = "debug_chat_probe" /\ pc = "dp_expand"
    /\ UNCHANGED <<idleVars, result, attempt, shot, cycles>>
    /\ inner' = [inner EXCEPT !.k = @ + 1]
    /\ \/ /\ Sent(Tap(ExpandPositions[inner.k + 1]))
          /\ Goto("dp_expand_check")
       \/ /\ NotSent
          /\ IF inner.k + 1 < Len(ExpandPositions)
             THEN Goto("dp_expand") ELSE Return("done")

\* ... stop when the chat is expanded or gone
ProbeExpandCheck ==
    /\ proc = "debug_chat_probe" /\ pc = "dp_expand_check"
    /\ UNCHANGED <<idleVars, result, attempt, inner, cycles>>
    /\ NotSent
    /\ \/ /\ shot' = NoShot
          /\ IF inner.k < Len(ExpandPositions)
             THEN Goto("dp_expand") ELSE Return("done")
       \/ /\ shot' = frame
          /\ IF IsChatExpanded(frame) \/ ~IsChatVisible(frame)
                \/ inner.k >= Len(ExpandPositions)
             THEN Return("done") ELSE Goto("dp_expand")

----------------------------------------------------------------------------
\* The stats file (title_tracker.py)

\* "if self.session_requests % 10 == 0"
SaveEvery == 10

\* The fields of the dataclass PlayerTitleStats
StatsFields ==
    {"player_name", "alliance_tag", "requests", "grants", "first_request",
     "last_request", "total_requests", "total_grants", "recent_request_times"}

\* The computed properties to_dict adds
ComputedFields == {"requests_per_hour", "favorite_title", "grant_rate"}

\* The order of the dictionary "counts" of favorite_title
TitleOrder == <<"duke", "scientist", "architect", "justice">>

\* PlayerTitleStats.requests_per_hour, in whole requests
requests_per_hour(st) ==
    LET ts == st.recent_request_times
        time_span == ts[Len(ts)] - ts[1]
    IN  IF Len(ts) < 2 THEN 0
        ELSE IF time_span <= 0 THEN 0
        ELSE (Len(ts) * 3600) \div (IF time_span > 360 THEN time_span ELSE 360)

\* PlayerTitleStats.favorite_title: max() returns the first key with the
\* largest count
favorite_title(st) ==
    IF \A k \in TitleTypes : st.requests[k] = 0 THEN "none"
    ELSE LET Most(i) == \A j \in DOMAIN TitleOrder :
                           st.requests[TitleOrder[j]] <= st.requests[TitleOrder[i]]
             first == CHOOSE i \in DOMAIN TitleOrder :
                           Most(i) /\ \A j \in 1..(i - 1) : ~Most(j)
         IN  TitleOrder[first]

\* PlayerTitleStats.grant_rate, in whole percent
grant_rate(st) ==
    IF st.total_requests = 0 THEN 0
    ELSE (st.total_grants * 100) \div st.total_requests

\* PlayerTitleStats.to_dict
to_dict(st) ==
    [f \in StatsFields \cup ComputedFields |->
        CASE f = "requests_per_hour" -> requests_per_hour(st)
          [] f = "favorite_title" -> favorite_title(st)
          [] f = "grant_rate" -> grant_rate(st)
          [] OTHER -> st[f]]

\* A variant that keeps the computed properties
from_dict_keeps_all(data) == data

\* PlayerTitleStats.from_dict
from_dict(data) == [f \in DOMAIN data \ ComputedFields |-> data[f]]

\* No file yet
NoFile == [state |-> "absent", total_players |-> 0, players |-> EmptyFn]

\* The document _save_data builds ("last_updated" left out)
Document(stats) ==
    [state |-> "complete",
     total_players |-> Cardinality(DOMAIN stats),
     players |-> [key \in DOMAIN stats |-> to_dict(stats[key])]]

\* How the write of _save_data can go: all of it; open() fails and the file
\* stays as it was; open(stats_file, 'w') has emptied the file and nothing
\* of json.dump arrives; json.dump stops part way
SaveOutcomes == {"ok", "open_failed", "truncated", "partial"}

\* The file after "with open(stats_file, 'w') ...: json.dump(data, f, ...)"
Written(out, file, stats) ==
    CASE out = "ok" -> Document(stats)
      [] out = "open_failed" -> file
      [] out = "truncated" -> [NoFile EXCEPT !.state = "empty"]
      [] OTHER -> [NoFile EXCEPT !.state = "partial"]

\* _load_data: the players of the file; none without a file, and none when
\* json.load raises
load_data(file) ==
    IF file.state = "complete"
    THEN [key \in DOMAIN file.players |-> from_dict(file.players[key])]
    ELSE EmptyFn

NoSave == [by |-> "none", wrote |-> "none", ended |-> "none", logged |-> FALSE]

\* A variant without the "except" of _save_data
SavePropagates(out) == IF out = "ok" THEN "returned" ELSE "raised"

\* "except Exception as e: logger.error(...)": _save_data returns
SaveEnds(out) == "returned"

SaveRecord(by, out) ==
    [by |-> by, wrote |-> out, ended |-> SaveEnds(out), logged |-> out # "ok"]

\* _save_data, called by "by" with the stats as they are then
save_data(by, stats) ==
    \E out \in SaveOutcomes :
        /\ stats_file' = Written(out, stats_file, stats)
        /\ saved' = SaveRecord(by, out)

\* A tracker call that does not save
NoSaveHere ==
    /\ saved' = NoSave
    /\ UNCHANGED stats_file

----------------------------------------------------------------------------
\* TitleRequestTracker.__init__ (no stats file on disk)

TrackerInit ==
    /\ now = 0
    /\ seen_messages = EmptyFn
    /\ other_seen = EmptyFn
    /\ player_stats = EmptyFn
    /\ recent_requests = <<>>
    /\ other_recent = EmptyFn
    /\ session_requests = 0
    /\ session_grants = 0
    /\ ret = NoRet
    /\ hist = [h \in Pairs |-> NoHist]
    /\ stats_file = NoFile
    /\ saved = NoSave

\* The tracker of a bot whose screen shows the idle map
Init ==
    /\ TrackerInit
    /\ frame = IdleFrame
    /\ result = NoResult
    /\ DeviceInit
    /\ RemoteInit
    /\ ConcInit

\* The clock moves on between calls
Tick ==
    /\ \E d \in Deltas : now + d <= MaxTime /\ now' = now + d
    /\ ret' = NoRet
    /\ NoSaveHere
    /\ UNCHANGED <<seen_messages, other_seen, player_stats, recent_requests,
                   other_recent, session_requests, session_grants, hist>>
    /\ UNCHANGED <<screenVars, deviceVars, remoteVars, concVars>>

\* TitleRequestTracker.track_request(player_name, alliance_tag, title_type),
\* what it does to the tracker's memory
TrackedInMemory(player_name, alliance_tag, title_type) ==
    LET timestamp == now
        normalized_name == NormalizeName(player_name)
        msg_hash == MsgHash(player_name, title_type)
        clean == NeedsCleanup(seen_messages, other_seen)
        seen1 == IF clean THEN CleanupSeen(seen_messages, timestamp)
                 ELSE seen_messages
        others1 == IF clean THEN CleanupOthers(other_seen, timestamp)
                   ELSE other_seen
        stats0 == IF normalized_name \in DOMAIN player_stats
                  THEN player_stats[normalized_name]
                  ELSE NewStats(player_name, alliance_tag)
        stats1 == IF alliance_tag # "" /\ alliance_tag # stats0.alliance_tag
                  THEN [stats0 EXCEPT !.alliance_tag = alliance_tag] ELSE stats0
        stats2 == AddRequest(stats1, title_type, timestamp)
    IN  /\ other_seen' = others1
        /\ IF msg_hash \in DOMAIN seen1
           THEN /\ seen_messages' = seen1
                /\ ret' = Ret("track", PairOf(player_name, title_type), FALSE)
                /\ UNCHANGED <<player_stats, recent_requests, other_recent,
                               session_requests, hist>>
           ELSE /\ ModelledRequests(player_stats) < MaxRequests
                /\ seen_messages' = (msg_hash :> timestamp) @@ seen1
                /\ recent_requests' =
                       Append(PruneRecent(recent_requests, timestamp),
                              NewRequest(player_name, alliance_tag, title_type,
                                         timestamp))
                /\ other_recent' = BagKeepNewer(other_recent, timestamp - RecentWindow)
                /\ player_stats' = (normalized_name :> stats2) @@ player_stats
                /\ session_requests' = session_requests + 1
                /\ ret' = Ret("track", PairOf(player_name, title_type), TRUE)
                /\ hist' = HistNew(PairOf(player_name, title_type), timestamp)
        /\ UNCHANGED <<now, session_grants>>

\* TitleRequestTracker.track_request, with "Save periodically (every 10
\* requests)" on its isNew branch
TrackRequest(player_name, alliance_tag, title_type) ==
    /\ TrackedInMemory(player_name, alliance_tag, title_type)
    /\ IF session_requests' # session_requests /\ session_requests' % SaveEvery = 0
       THEN save_data("track_request", player_stats')
       ELSE NoSaveHere

Track ==
    /\ \E i \in TrackInputs : TrackRequest(i[1], i[2], i[3])
    /\ UNCHANGED <<screenVars, deviceVars, remoteVars, concVars>>

\* "if (self._normalize_name(req.player_name) == normalized_name and
\*      req.title_type == title_type and not req.was_granted)"
GrantMatches(r, normalized_name, title_type) ==
    /\ NormalizeName(r.player_name) = normalized_name
    /\ r.title_type = title_type
    /\ ~r.was_granted

\* A variant that marks the oldest matching request instead of the latest
MarkGrantedFirst(reqs, normalized_name, title_type, t) ==
    LET hits == {i \in 1..Len(reqs) : GrantMatches(reqs[i], normalized_name, title_type)}
    IN IF hits = {} THEN reqs
       ELSE LET i == CHOOSE x \in hits : \A y \in hits : x <= y
            IN [reqs EXCEPT ![i] = [@ EXCEPT !.was_granted = TRUE, !.granted_at = t]]

\* "for req in reversed(self.recent_requests): if ... : req.was_granted = True; break"
MarkGranted(reqs, normalized_name, title_type, t) ==
    LET hits == {i \in 1..Len(reqs) : GrantMatches(reqs[i], normalized_name, title_type)}
    IN IF hits = {} THEN reqs
       ELSE LET i == CHOOSE x \in hits : \A y \in hits : y <= x
            IN [reqs EXCEPT ![i] = [@ EXCEPT !.was_granted = TRUE, !.granted_at = t]]

\* A variant of the deletion that leaves the cache as it is
KeepEntries(seen, hs) == seen

\* "if msg_hash in self.seen_messages: del self.seen_messages[msg_hash]"
DelEntries(seen, hs) == [h \in DOMAIN seen \ hs |-> seen[h]]

\* TitleRequestTracker.record_grant(player_name, title_type), explored as long
\* as the session has fewer than cap grants
RecordGrantWithin(player_name, title_type, cap) ==
    LET normalized_name == NormalizeName(player_name)
        msg_hash == MsgHash(player_name, title_type)
    IN  IF normalized_name \notin DOMAIN player_stats
        THEN /\ ret' = Ret("grant", PairOf(player_name, title_type), FALSE)
             /\ ret' # ret
             /\ UNCHANGED <<now, seen_messages, other_seen, player_stats,
                            recent_requests, other_recent, session_requests,
                            session_grants, hist>>
        ELSE /\ session_grants < cap
             /\ player_stats' =
                    [player_stats EXCEPT ![normalized_name] = AddGrant(@, title_type)]
             /\ recent_requests' =
                    MarkGranted(recent_requests, normalized_name, title_type, now)
             /\ session_grants' = session_grants + 1
             /\ seen_messages' = DelEntries(seen_messages, {msg_hash})
             /\ ret' = Ret("grant", PairOf(player_name, title_type), TRUE)
             /\ hist' = HistRemoved({PairOf(player_name, title_type)}, "grant")
             /\ UNCHANGED <<now, other_seen, other_recent, session_requests>>

\* TitleRequestTracker.record_grant(player_name, title_type)
RecordGrant(player_name, title_type) ==
    RecordGrantWithin(player_name, title_type, MaxGrants)

Grant ==
    /\ \E i \in GrantInputs : RecordGrant(i[1], i[2])
    /\ NoSaveHere
    /\ UNCHANGED <<screenVars, deviceVars, remoteVars, concVars>>

\* TitleRequestTracker.clear_player_from_seen(player_name, title_type=None)
ClearPlayerFromSeen(player_name, title_type) ==
    LET hs == IF title_type # NoTitle
              THEN {MsgHash(player_name, title_type)}
              ELSE {MsgHash(player_name, title) : title \in TitleTypes}
        ps == IF title_type # NoTitle
              THEN {PairOf(player_name, title_type)}
              ELSE {PairOf(player_name, title) : title \in TitleTypes}
    IN  /\ seen_messages' = DelEntries(seen_messages, hs)
        /\ ret' = Ret("clear", NoKey, TRUE)
        /\ hist' = HistRemoved(ps, "clear")
        /\ UNCHANGED <<now, other_seen, player_stats, recent_requests,
                       other_recent, session_requests, session_grants>>

Clear ==
    /\ \E i \in ClearInputs : ClearPlayerFromSeen(i[1], i[2])
    /\ NoSaveHere
    /\ UNCHANGED <<screenVars, deviceVars, remoteVars, concVars>>

\* TitleRequestTracker.reset_seen_messages()
ResetSeenMessages ==
    /\ seen_messages' = EmptyFn
    /\ other_seen' = EmptyFn
    /\ ret' = Ret("reset", NoKey, TRUE)
    /\ hist' = HistRemoved(Pairs, "clear")
    /\ NoSaveHere
    /\ UNCHANGED <<now, player_stats, recent_requests, other_recent,
                   session_requests, session_grants>>
    /\ UNCHANGED <<screenVars, deviceVars, remoteVars, concVars>>

\* One chat pass of RokRemoteBot.run_title_bot that yields n requests of
\* distinct, never seen players outside Names, all at one clock reading:
\* track_request runs n times on its isNew branch.  Call i (from 0) finds
\* len(seen_messages) = len0 + i until the first cleanup; the entries added
\* carry the current timestamp, which no cleanup at that timestamp removes,
\* and a cleanup repeated at the same timestamp removes nothing more.  So
\* the n calls clean up once iff some call finds len0 + i > threshold, that
\* is iff the last one does, and then add their n entries.
TrackOtherTimes(T, timestamp, n) ==
    LET clean == n > 0 /\ SeenLen(T.seen, T.others) + (n - 1) > CleanupThreshold
        seen1 == IF clean THEN CleanupSeen(T.seen, timestamp) ELSE T.seen
        others1 == IF clean THEN CleanupOthers(T.others, timestamp) ELSE T.others
    IN [ seen |-> seen1,
         others |-> BagAdd(others1, timestamp, n),
         recent |-> IF n > 0 THEN PruneRecent(T.recent, timestamp) ELSE T.recent,
         orecent |-> IF n > 0
                     THEN BagAdd(BagKeepNewer(T.orecent, timestamp - RecentWindow),
                                 timestamp, n)
                     ELSE T.orecent,
         sess |-> T.sess + n ]

\* The saves of n such calls: every call that brings session_requests to
\* a multiple of SaveEvery saves the same stats.  "earlier" is what the
\* saves before the last call made of the file, "final" the save of the
\* last call, if it saves.
SavedInBatch(n) ==
    LET last == session_requests + n
        saves == {c \in (session_requests + 1)..last : c % SaveEvery = 0}
    IN  IF saves = {} THEN NoSaveHere
        ELSE \E earlier, final \in SaveOutcomes :
               LET file1 == IF saves \ {last} # {}
                            THEN Written(earlier, stats_file, player_stats)
                            ELSE stats_file
               IN  IF last \in saves
                   THEN /\ stats_file' = Written(final, file1, player_stats)
                        /\ saved' = SaveRecord("track_request", final)
                   ELSE /\ stats_file' = file1
                        /\ saved' = NoSave

\* n requests of other players, as long as they number at most cap
TrackBatch(n, cap) ==
    LET T0 == [ seen |-> seen_messages, others |-> other_seen,
                recent |-> recent_requests, orecent |-> other_recent,
                sess |-> session_requests ]
        T == TrackOtherTimes(T0, now, n)
    IN  /\ (session_requests - ModelledRequests(player_stats)) + n <= cap
        /\ seen_messages' = T.seen
        /\ other_seen' = T.others
        /\ recent_requests' = T.recent
        /\ other_recent' = T.orecent
        /\ session_requests' = T.sess
        /\ ret' = Ret("others", NoKey, TRUE)
        /\ SavedInBatch(n)
        /\ UNCHANGED <<now, player_stats, session_grants, hist>>
        /\ UNCHANGED <<screenVars, deviceVars, remoteVars, concVars>>

TrackOthers == TrackBatch(FillBatch, MaxOthers)

\* TitleRequestTracker.shutdown
shutdown ==
    /\ save_data("shutdown", player_stats)
    /\ ret' = Ret("shutdown", NoKey, TRUE)
    /\ UNCHANGED <<now, seen_messages, other_seen, player_stats, recent_requests,
                   other_recent, session_requests, session_grants, hist>>

Next == Tick \/ Track \/ Grant \/ Clear \/ ResetSeenMessages \/ TrackOthers

Spec == Init /\ [][Next]_vars

----------------------------------------------------------------------------
\* Claims on the tracker (specification Spec)

\* The last call was a track_request on a pair that had been reported new
\* before, and it came within the TTL of that report.
TrackWithinTTL ==
    /\ ret.op = "track"
    /\ ret.prevNewAt # NoTime
    /\ now - ret.prevNewAt < seen_messages_ttl

\* C1 as stated: within the TTL a pair is reported new again only after a
\* record_grant for it.
C1_NoRepeatUnlessGranted ==
    (TrackWithinTTL /\ ret.ok) => "grant" \in ret.since

\* C1 amended: once track_request has reported a (normalized player, title)
\* pair new, every later track_request for it within the TTL returns
\* isNew = FALSE as long as neither record_grant for the pair nor
\* clear_player_from_seen covering it nor reset_seen_messages came in between.
C1_NoRepeatUnlessRemoved ==
    (TrackWithinTTL /\ ret.since = {}) => ~ret.ok

\* A duplicate poll of a pair within its TTL, spelled with another case and
\* trailing blank, was answered "already seen".
C1_Witness ==
    /\ TrackWithinTTL
    /\ ret.since = {}
    /\ ~ret.ok
    /\ now > ret.prevNewAt
    /\ \E n \in DOMAIN player_stats :
          /\ ret.pair[1] = n
          /\ player_stats[n].player_name # n

\* C2: once the TTL has elapsed since the pair was first seen, the next
\* track_request for it returns isNew = TRUE.
C2_NewAfterTTL ==
    ( /\ ret.op = "track"
      /\ ret.prevNewAt # NoTime
      /\ now - ret.prevNewAt >= seen_messages_ttl ) => ret.ok

\* C3: a track_request that immediately follows record_grant for the same
\* pair returns isNew = TRUE.
C3_GrantClearsDedup ==
    (ret.op = "track" /\ ret.afterGrant) => ret.ok

\* The pair was tracked, granted while its entry was within the TTL, and
\* tracked again at once.
C3_Witness ==
    /\ TrackWithinTTL
    /\ ret.afterGrant
    /\ ret.since = {"grant"}
    /\ ret.ok

\* A step removes an unexpired seen-cache entry (of a player in Names or not)
RemovesUnexpired ==
    \/ \E h \in DOMAIN seen_messages :
          /\ h \notin DOMAIN seen_messages'
          /\ now' - seen_messages[h] < seen_messages_ttl
    \/ \E t \in DOMAIN other_seen :
          /\ now' - t < seen_messages_ttl
          /\ (t \notin DOMAIN other_seen' \/ other_seen'[t] < other_seen[t])

\* C4 as stated: only record_grant removes an entry before its TTL expired.
C4_OnlyGrantRemovesEarly ==
    [][RemovesUnexpired => ret'.op = "grant"]_vars

\* C4 amended: record_grant, clear_player_from_seen and reset_seen_messages
\* are the only tracker operations that remove a seen-cache entry before its
\* TTL has expired; track_request, cleanup included, never does.
C4_OnlyRemovalOpsRemoveEarly ==
    [][RemovesUnexpired => ret'.op \in {"grant", "clear", "reset"}]_vars

\* track_request ran its cleanup (more than 100 entries), which dropped the
\* expired entries and kept an unexpired entry of a player in Names.
C4_Witness ==
    /\ ret.op = "track"
    /\ ret.ok
    /\ BagCount(other_seen) = 0
    /\ session_requests > CleanupThreshold
    /\ \E h \in DOMAIN seen_messages : seen_messages[h] < now

----------------------------------------------------------------------------
\* The classifier applied to one captured frame (specification SpecClassify)

InitClassify ==
    /\ TrackerInit
    /\ frame \in FrameSpace \cup MalformedFrames
    /\ result = NoResult
    /\ DeviceInit
    /\ RemoteInit
    /\ ConcInit

\* result = self.detector.detect_state(screen)
DetectState ==
    /\ result = NoResult
    /\ result' = Classified(frame)
    /\ UNCHANGED <<frame, idleVars, deviceVars>>

\* result = self.get_current_state(force_refresh=True), the capture
\* delivering the frame
GetCurrentState ==
    /\ result = NoResult
    /\ result' = get_current_state(frame)
    /\ UNCHANGED <<frame, idleVars, deviceVars>>

NextClassify == DetectState \/ GetCurrentState

SpecClassify == InitClassify /\ [][NextClassify]_vars

\* The frame was classified and satisfies both the exit-dialog signature and
\* the idle-map signature
ClassifiedExitAndIdle ==
    /\ result # NoResult
    /\ Readable(frame)
    /\ IsExitMenu(frame)
    /\ IsOnMap(frame)

\* One of the checks detect_state makes before the exit-dialog check matches
ErrorSignature(screen) ==
    IsBlackScreen(screen) \/ IsLoading(screen) \/ IsConnectionError(screen)

\* C8 as stated: a frame that satisfies both the exit-dialog and the idle-map
\* signature is classified EXIT_MENU.
C8_ExitBeatsIdle ==
    ClassifiedExitAndIdle => result.state = "EXIT_MENU"

\* C8 amended: a frame that satisfies both the exit-dialog and the idle-map
\* signature is never classified IDLE_MAP, and it is classified EXIT_MENU
\* unless it also satisfies the black-screen, loading or connection-error
\* signature, which are checked first.
C8_ExitBeatsIdleUnlessError ==
    ClassifiedExitAndIdle =>
        /\ result.state # "IDLE_MAP"
        /\ (~ErrorSignature(frame) => result.state = "EXIT_MENU")

\* A frame with the dialog's colours and structure over the map's bottom
\* menu, no template match, was classified EXIT_MENU.
C8_Witness ==
    /\ ClassifiedExitAndIdle
    /\ frame.tmpl = 0
    /\ ~ErrorSignature(frame)
    /\ result.state = "EXIT_MENU"

----------------------------------------------------------------------------
\* The navigators driving the device (specification SpecDevice)

InitDevice ==
    /\ TrackerInit
    /\ frame \in DeviceFrames
    /\ result = NoResult
    /\ DeviceInit
    /\ RemoteInit
    /\ ConcInit

NextDevice ==
    \/ CallRecoverToIdle \/ RecoverToIdleClassify \/ ExecuteAction
    \/ ExecuteSequenceTap
    \/ CallSmartRecoverToIdle \/ SmartRecoverClassify \/ HandleErrorState
    \/ PressEscapeSafe \/ PressEscapeSafeCheck \/ PressEscapeSafeCancel
    \/ TapEmptyAreas \/ DismissPopup \/ SmartRecoverClose \/ SmartRecoverWait
    \/ CallReturnToIdle \/ ReturnToIdleClassify \/ ClosePopupTapX
    \/ ClosePopupCheckX \/ ClosePopupBack \/ ClosePopupCheckBack
    \/ ClosePopupTapOutside \/ ClosePopupCheckOutside
    \/ ReturnToIdleBack \/ ReturnToIdleCheckBack
    \/ CallSafeEscape \/ SafeEscape \/ HandleExitPopup \/ HandleExitPopupCancel
    \/ CallTitleRecoverToIdle \/ TitleRecoverLoop \/ TitleRecoverShot
    \/ TitleRecoverEscape
    \/ CallEnsureChatOpen \/ EnsureChatScreenshot \/ EnsureChatStage
    \/ ReturnToCitySnap \/ ReturnToCityTap \/ EnsureChatTap
    \/ EnsureChatTapCheck \/ EnsureChatFallback \/ EnsureChatReopen
    \/ CallDebugChatProbe \/ ProbeEscape \/ ProbeCapture \/ OpenChatTap
    \/ OpenChatCheck \/ ProbeExpandTap \/ ProbeExpandCheck

SpecDevice == InitDevice /\ [][NextDevice]_vars

\* The recovery calls of the navigators
RecoveryProcs == {"recover_to_idle", "smart_recover_to_idle", "return_to_idle"}

\* C5: in an action sequence of the recovery navigator that contains an
\* escape key press, if the frame after the escape matches the exit-dialog
\* signature, the next input sent to the device is the tap on the dialog's
\* cancel position (779, 457).
C5_EscapeThenCancel ==
    [][ ( /\ proc \in RecoveryProcs
          /\ esc.pending /\ esc.by = proc
          /\ IsExitMenu(frame)
          /\ sent' # NoAction )
        => sent' = Tap(CancelPos) ]_vars

\* C6: every escape key press is followed, before any other input, by a
\* re-check for the exit dialog and, if the re-check finds the dialog, by
\* the cancel tap.
C6_EscapeAlwaysGuarded ==
    [][ (esc.pending /\ sent' # NoAction)
        => /\ esc.checked
           /\ esc.found => sent' \in {Tap(CancelPos), Tap(exit_cancel)} ]_vars

\* C7 as stated: a recovery call with attempt budget N performs at most N
\* classify/act cycles.
C7_CyclesWithinBudget ==
    proc \in RecoveryProcs => cycles <= budget

\* Captures inspected per attempt of return_to_idle: one by the loop, five
\* in each attempt of close_current_popup, one after each back button
CyclesPerAttempt(name) ==
    IF name = "return_to_idle"
    THEN 1 + CloseAttempts * (2 + Len(OUTSIDE_TAP_POSITIONS)) + BackRetries
    ELSE 1

\* C7 amended: recover_to_idle (budget 5) and smart_recover_to_idle(N)
\* classify the screen at most N times, each followed by at most one
\* recovery action; SmartNavigator.return_to_idle(N) makes at most N outer
\* attempts, each of at most 19 captures inspected and acted upon.
C7_CyclesWithinBudgetPerNavigator ==
    proc \in RecoveryProcs =>
        /\ attempt <= budget
        /\ cycles <= budget * CyclesPerAttempt(proc)

\* smart_recover_to_idle used up its whole budget, a failed capture
\* included, and returned False.
C7_Witness ==
    /\ proc = "smart_recover_to_idle"
    /\ pc = "idle"
    /\ outcome = "false"
    /\ budget = MaxAttempts
    /\ cycles = budget
    /\ shot = NoShot

----------------------------------------------------------------------------
\* Threads calling one tracker concurrently (specification SpecConc). Each
\* call is a sequence of steps; the clock stands still while the calls run.

\* A variant of the lock that never blocks
LockFreeAlways(l) == TRUE

\* "with self._lock:" blocks until the lock is free
LockFree(l) == l = "free"

\* Calls begun and not yet returned
InFlight(op) == { t \in Threads : threads[t].pc # "idle" /\ threads[t].op = op }

\* The pair a thread's call is about
CallPair(th) == PairOf(th.arg[1], th.arg[Len(th.arg)])

\* Some other thread's track_request for the same pair is under way
Overlaps(t, i) ==
    \E u \in InFlight("track") \ {t} : CallPair(threads[u]) = PairOf(i[1], i[3])

StartCall(t, op, arg) ==
    /\ threads[t].pc = "idle"
    /\ threads' = [threads EXCEPT ![t] =
           [pc |-> "acquire", op |-> op, arg |-> arg, timestamp |-> NoTime,
            read |-> 0, ret |-> "none",
            overlap |-> op = "track" /\ Overlaps(t, arg)]]
    /\ UNCHANGED <<lock, wins, won, trackerVars, screenVars, deviceVars, remoteVars>>

\* A thread calls track_request(player_name, alliance_tag, title_type)
ConcTrackCall ==
    \E t \in Threads :
        /\ won + Cardinality(InFlight("track")) < MaxRequests
        /\ \E i \in TrackInputs : StartCall(t, "track", i)

\* A thread calls record_grant(player_name, title_type)
ConcGrantCall ==
    \E t \in Threads :
        /\ session_grants + Cardinality(InFlight("grant")) < MaxGrants
        /\ \E i \in GrantInputs : StartCall(t, "grant", i)

\* A thread calls clear_player_from_seen(player_name, title_type)
ConcClearCall ==
    \E t \in Threads :
        /\ InFlight("clear") = {}
        /\ \E i \in ClearInputs : StartCall(t, "clear", i)

\* "with self._lock:" entered; track_request reads the clock inside
ConcAcquire ==
    \E t \in Threads :
        /\ threads[t].pc = "acquire"
        /\ LockFree(lock)
        /\ lock' = t
        /\ threads' = [threads EXCEPT
               ![t].pc = IF threads[t].op = "track" THEN "check" ELSE "body",
               ![t].timestamp = now]
        /\ UNCHANGED <<wins, won, trackerVars, screenVars, deviceVars, remoteVars>>

\* track_request: the cleanup and the look-up of the hash; a duplicate
\* returns False, which leaves the "with" block
ConcTrackCheck ==
    \E t \in Threads :
        LET th == threads[t]
            msg_hash == MsgHash(th.arg[1], th.arg[3])
            clean == NeedsCleanup(seen_messages, other_seen)
            seen1 == IF clean THEN CleanupSeen(seen_messages, th.timestamp)
                     ELSE seen_messages
        IN  /\ th.pc = "check"
            /\ seen_messages' = seen1
            /\ other_seen' = IF clean THEN CleanupOthers(other_seen, th.timestamp)
                             ELSE other_seen
            /\ IF msg_hash \in DOMAIN seen1
               THEN /\ lock' = "free"
                    /\ threads' = [threads EXCEPT ![t].pc = "idle", ![t].ret = "false"]
                    /\ UNCHANGED <<wins, won>>
               ELSE /\ threads' = [threads EXCEPT ![t].pc = "insert"]
                    /\ wins' = [wins EXCEPT ![CallPair(th)] = @ + 1]
                    /\ won' = won + 1
                    /\ UNCHANGED lock
            /\ UNCHANGED <<now, player_stats, recent_requests, other_recent,
                           session_requests, session_grants, ret, hist, persistVars>>
            /\ UNCHANGED <<screenVars, deviceVars, remoteVars>>

\* "self.seen_messages[msg_hash] = timestamp"
ConcTrackInsert ==
    \E t \in Threads :
        LET th == threads[t]
        IN  /\ th.pc = "insert"
            /\ seen_messages' = (MsgHash(th.arg[1], th.arg[3]) :> th.timestamp)
                                    @@ seen_messages
            /\ threads' = [threads EXCEPT ![t].pc = "stats"]
            /\ UNCHANGED <<now, other_seen, player_stats, recent_requests, other_recent,
                           session_requests, session_grants, ret, hist, persistVars>>
            /\ UNCHANGED <<lock, wins, won, screenVars, deviceVars, remoteVars>>

\* The request record and the player's stats
ConcTrackStats ==
    \E t \in Threads :
        LET th == threads[t]
            player_name == th.arg[1]
            alliance_tag == th.arg[2]
            title_type == th.arg[3]
            normalized_name == NormalizeName(player_name)
            stats0 == IF normalized_name \in DOMAIN player_stats
                      THEN player_stats[normalized_name]
                      ELSE NewStats(player_name, alliance_tag)
            stats1 == IF alliance_tag # "" /\ alliance_tag # stats0.alliance_tag
                      THEN [stats0 EXCEPT !.alliance_tag = alliance_tag] ELSE stats0
        IN  /\ th.pc = "stats"
            /\ recent_requests' =
                   Append(PruneRecent(recent_requests, th.timestamp),
                          NewRequest(player_name, alliance_tag, title_type, th.timestamp))
            /\ other_recent' = BagKeepNewer(other_recent, th.timestamp - RecentWindow)
            /\ player_stats' =
                   (normalized_name :> AddRequest(stats1, title_type, th.timestamp))
                       @@ player_stats
            /\ threads' = [threads EXCEPT ![t].pc = "count_read"]
            /\ UNCHANGED <<now, seen_messages, other_seen, session_requests,
                           session_grants, ret, hist, persistVars>>
            /\ UNCHANGED <<lock, wins, won, screenVars, deviceVars, remoteVars>>

\* "self.session_requests += 1": the load ...
ConcTrackCountRead ==
    \E t \in Threads :
        /\ threads[t].pc = "count_read"
        /\ threads' = [threads EXCEPT ![t].pc = "count_write", ![t].read = session_requests]
        /\ UNCHANGED <<lock, wins, won, trackerVars, screenVars, deviceVars, remoteVars>>

\* ... and the store
ConcTrackCountWrite ==
    \E t \in Threads :
        /\ threads[t].pc = "count_write"
        /\ session_requests' = threads[t].read + 1
        /\ threads' = [threads EXCEPT ![t].pc = "release"]
        /\ IF session_requests' % SaveEvery = 0
           THEN save_data("track_request", player_stats)
           ELSE NoSaveHere
        /\ UNCHANGED <<now, seen_messages, other_seen, player_stats, recent_requests,
                       other_recent, session_grants, ret, hist>>
        /\ UNCHANGED <<lock, wins, won, screenVars, deviceVars, remoteVars>>

\* "return True, ..." leaves the "with" block
ConcTrackRelease ==
    \E t \in Threads :
        /\ threads[t].pc = "release"
        /\ lock' = "free"
        /\ threads' = [threads EXCEPT ![t].pc = "idle", ![t].ret = "true"]
        /\ UNCHANGED <<wins, won, trackerVars, screenVars, deviceVars, remoteVars>>

\* record_grant inside its "with" block
ConcGrantBody ==
    \E t \in Threads :
        LET th == threads[t]
            granted == NormalizeName(th.arg[1]) \in DOMAIN player_stats
        IN  /\ th.pc = "body" /\ th.op = "grant"
            /\ RecordGrant(th.arg[1], th.arg[2])
            /\ NoSaveHere
            /\ lock' = "free"
            /\ threads' = [threads EXCEPT ![t].pc = "idle",
                                          ![t].ret = IF granted THEN "true" ELSE "false"]
            /\ wins' = IF granted THEN [wins EXCEPT ![CallPair(th)] = 0] ELSE wins
            /\ UNCHANGED <<won, screenVars, deviceVars, remoteVars>>

\* clear_player_from_seen inside its "with" block
ConcClearBody ==
    \E t \in Threads :
        LET th == threads[t]
            ps == IF th.arg[2] # NoTitle
                  THEN {PairOf(th.arg[1], th.arg[2])}
                  ELSE {PairOf(th.arg[1], title) : title \in TitleTypes}
        IN  /\ th.pc = "body" /\ th.op = "clear"
            /\ ClearPlayerFromSeen(th.arg[1], th.arg[2])
            /\ NoSaveHere
            /\ lock' = "free"
            /\ threads' = [threads EXCEPT ![t].pc = "idle", ![t].ret = "done"]
            /\ wins' = [p \in Pairs |-> IF p \in ps THEN 0 ELSE wins[p]]
            /\ UNCHANGED <<won, screenVars, deviceVars, remoteVars>>

NextConc ==
    \/ ConcTrackCall \/ ConcGrantCall \/ ConcClearCall
    \/ ConcAcquire \/ ConcTrackCheck \/ ConcTrackInsert
    \/ ConcTrackStats \/ ConcTrackCountRead \/ ConcTrackCountWrite
    \/ ConcTrackRelease \/ ConcGrantBody \/ ConcClearBody

SpecConc == Init /\ [][NextConc]_vars

\* Positions inside a "with self._lock:" block
InsideLock == {"check", "insert", "stats", "count_read", "count_write",
               "release", "body"}

\* C10: the read-modify-write sequences of the seen cache and of the stats
\* run one thread at a time, so that of the track_request calls on a pair
\* that is not in the cache exactly one decides isNew=true until the pair is
\* removed again, and the request counters count every such call once.
C10_ExactlyOneNew ==
    /\ Cardinality({ t \in Threads : threads[t].pc \in InsideLock }) <= 1
    /\ \A p \in Pairs : wins[p] <= 1
    /\ InFlight("track") = {} =>
           /\ session_requests = won
           /\ ModelledRequests(player_stats) = won

\* Two track_request calls for the same pair overlapped in time, the pair
\* was not in the cache, and both have returned: one True, one False, and
\* the counter stands at one.
C10_Witness ==
    /\ threads["t1"].op = "track" /\ threads["t2"].op = "track"
    /\ threads["t1"].pc = "idle" /\ threads["t2"].pc = "idle"
    /\ CallPair(threads["t1"]) = CallPair(threads["t2"])
    /\ threads["t1"].arg # threads["t2"].arg
    /\ threads["t2"].overlap
    /\ threads["t1"].ret = "true" /\ threads["t2"].ret = "false"
    /\ session_requests = 1 /\ won = 1

----------------------------------------------------------------------------
\* RokRemoteBot (rok_remote_bot.py): the main thread running the title bot
\* and the stop-checker thread it starts (specification SpecRemote)

\* "self.navigator.smart_recover_to_idle(max_attempts=10)"
IdleRecoveryAttempts == 10

\* The passes of a recovery loop that are explored when the bot asks for n
MaxPasses == 1

Passes(n) == IF n < MaxPasses THEN n ELSE MaxPasses

\* BotState values during which _check_for_stop_command keeps polling
ActiveStates == {"scanning", "giving_titles", "navigating"}

\* The bot waits at its command loop; an earlier scan may have left a scanner
InitRemote ==
    /\ TrackerInit
    /\ ConcInit
    /\ DeviceInit
    /\ frame \in DeviceFrames
    /\ result = NoResult
    /\ caller = "none"
    /\ bot_state = "idle"
    /\ main_pc = "poll"
    /\ checker_pc = "none"
    /\ scanner \in BOOLEAN
    /\ stop_scan = FALSE
    /\ ExtInit

\* No procedure step in this step of a thread
DeviceIdle ==
    /\ sent' = NoAction
    /\ UNCHANGED <<proc, pc, budget, attempt, inner, shot, esc, cycles, outcome,
                   frame, result, mark, extVars>>

\* The thread enters a navigator procedure at label with the classification
\* it already holds
Enter(thread, name, label, n) ==
    /\ caller' = thread
    /\ proc' = name
    /\ pc' = label
    /\ budget' = n
    /\ attempt' = 0
    /\ inner' = [NoInner EXCEPT !.cont = "taps"]
    /\ cycles' = 0
    /\ outcome' = "running"
    /\ sent' = NoAction
    /\ esc' = [esc EXCEPT !.by = "none"]
    /\ mark' = [mark EXCEPT ![thread] = NoMark]
    /\ UNCHANGED <<frame, extVars>>

\* RokRemoteBot.run: the command "start_title_bot"; run_title_bot sets the
\* state and starts the stop checker
MainPollCommand ==
    /\ main_pc = "poll"
    /\ checker_pc \in {"none", "ended"}
    /\ bot_state' = "giving_titles"
    /\ checker_pc' = "loop"
    /\ main_pc' = "tb_loop"
    /\ DeviceIdle
    /\ UNCHANGED <<caller, scanner, stop_scan, trackerVars, concVars>>

\* What vision.find_title_requests reads from the chat during the run
ChatRequests == { << <<"a">>, "", "duke" >> }

\* One pass of the loop of run_title_bot: a capture and the requests read
\* from it, each handed to track_request
TitleBotLoop ==
    /\ main_pc = "tb_loop"
    /\ bot_state = "giving_titles"
    /\ \E i \in ChatRequests : TrackRequest(i[1], i[2], i[3])
    /\ DeviceIdle
    /\ UNCHANGED <<remoteVars, concVars>>

\* The loop ends once the state is no longer GIVING_TITLES
TitleBotEnd ==
    /\ main_pc = "tb_loop"
    /\ bot_state # "giving_titles"
    /\ bot_state' = "idle"
    /\ main_pc' = "poll"
    /\ shutdown
    /\ DeviceIdle
    /\ UNCHANGED <<caller, checker_pc, scanner, stop_scan, concVars>>

\* _check_for_stop_command: one poll
CheckerPoll ==
    /\ checker_pc = "loop"
    /\ IF bot_state \in ActiveStates
       THEN \E cmd \in {"none", "stop", "idle"} :
                checker_pc' = IF cmd = "none" THEN "polled" ELSE "stop_op"
       ELSE checker_pc' = "ended"
    /\ DeviceIdle
    /\ UNCHANGED <<caller, bot_state, main_pc, scanner, stop_scan, trackerVars, concVars>>

\* "time.sleep(0.5)" between polls
CheckerSleep ==
    /\ checker_pc = "polled"
    /\ checker_pc' = "loop"
    /\ DeviceIdle
    /\ UNCHANGED <<caller, bot_state, main_pc, scanner, stop_scan, trackerVars, concVars>>

\* stop_current_operation on the checker thread: the scanner's flags, then
\* ensure_idle_and_ready, which begins with set_state(NAVIGATING)
StopCurrentOperation ==
    /\ checker_pc = "stop_op"
    /\ stop_scan' = IF scanner THEN TRUE ELSE stop_scan
    /\ bot_state' = "navigating"
    /\ checker_pc' = "ei_state"
    /\ DeviceIdle
    /\ UNCHANGED <<caller, main_pc, scanner, trackerVars, concVars>>

\* ensure_idle_and_ready: get_current_state, then open_chat on the idle
\* map, else handle_error_state or dismiss_popup followed by
\* smart_recover_to_idle(max_attempts=10)
EnsureIdleClassify ==
    /\ checker_pc = "ei_state"
    /\ caller # "main"
    /\ shot' \in {frame, NoShot}
    /\ result' = get_current_state(shot')
    /\ IF result'.state = "IDLE_MAP"
       THEN /\ checker_pc' = "ei_open"
            /\ sent' = NoAction
            /\ UNCHANGED <<caller, proc, pc, budget, attempt, inner, esc, cycles,
                           outcome, frame, mark, extVars>>
       ELSE /\ checker_pc' = "ei_recover"
            /\ Enter("checker", "smart_recover_to_idle",
                     CASE is_error_state(result'.state) -> "he_act"
                       [] is_popup_state(result'.state) -> "dp_act"
                       [] OTHER -> "sr_loop",
                     Passes(IdleRecoveryAttempts))
    /\ UNCHANGED <<bot_state, main_pc, scanner, stop_scan, trackerVars, concVars>>

\* "self.navigator.open_chat()": nothing within 8 s of the last attempt
EnsureIdleOpenChat ==
    /\ checker_pc = "ei_open"
    /\ caller # "main"
    /\ checker_pc' = "ei_chat"
    /\ \/ /\ Enter("checker", "open_chat", "oc_tap", 0)
          /\ UNCHANGED <<shot, result>>
       \/ /\ caller' = "checker"
          /\ DeviceIdle
    /\ UNCHANGED <<bot_state, main_pc, scanner, stop_scan, trackerVars, concVars>>

\* smart_recover_to_idle has returned: open_chat, or the legacy
\* ensure_idle_state; an exception ends up in the checker's "except"
EnsureIdleRecovered ==
    /\ checker_pc = "ei_recover"
    /\ caller = "checker"
    /\ proc = "smart_recover_to_idle" /\ pc = "idle"
    /\ checker_pc' = CASE outcome = "true" -> "ei_open"
                       [] outcome = "false" -> "ei_legacy"
                       [] OTHER -> "polled"
    /\ DeviceIdle
    /\ UNCHANGED <<caller, bot_state, main_pc, scanner, stop_scan, trackerVars, concVars>>

\* ensure_idle_state(max_attempts=5): its first input, the cancel tap of
\* _click_cancel_exit_menu; what its loop then reports is left open
EnsureIdleLegacy ==
    /\ checker_pc = "ei_legacy"
    /\ caller = "checker"
    /\ checker_pc' \in {"ei_open", "ei_error"}
    /\ Sent(Tap(CancelPos)) \/ NotSent
    /\ UNCHANGED <<proc, pc, budget, attempt, inner, shot, cycles, outcome, result>>
    /\ UNCHANGED <<caller, bot_state, main_pc, scanner, stop_scan, trackerVars, concVars,
                   extVars>>

\* "self.set_state(BotState.IDLE, ...); return True", and the checker's "break"
EnsureIdleDone ==
    /\ checker_pc = "ei_chat"
    /\ caller = "checker"
    /\ pc = "idle"
    /\ bot_state' = "idle"
    /\ checker_pc' = "ended"
    /\ caller' = "none"
    /\ DeviceIdle
    /\ UNCHANGED <<main_pc, scanner, stop_scan, trackerVars, concVars>>

\* "self.set_state(BotState.ERROR, ...); return False"
EnsureIdleFailed ==
    /\ checker_pc = "ei_error"
    /\ caller = "checker"
    /\ bot_state' = "error"
    /\ checker_pc' = "ended"
    /\ caller' = "none"
    /\ DeviceIdle
    /\ UNCHANGED <<main_pc, scanner, stop_scan, trackerVars, concVars>>

NextRemote ==
    \/ MainPollCommand \/ TitleBotLoop \/ TitleBotEnd
    \/ CheckerPoll \/ CheckerSleep \/ StopCurrentOperation
    \/ EnsureIdleClassify \/ EnsureIdleOpenChat \/ EnsureIdleRecovered
    \/ EnsureIdleLegacy \/ EnsureIdleDone \/ EnsureIdleFailed
    \/ SmartRecoverClassify \/ HandleErrorState \/ PressEscapeSafe
    \/ PressEscapeSafeCheck \/ PressEscapeSafeCancel \/ TapEmptyAreas
    \/ DismissPopup \/ SmartRecoverClose \/ SmartRecoverWait
    \/ OpenChatTap \/ OpenChatCheck

SpecRemote == InitRemote /\ [][NextRemote]_vars

\* C9: the stop-checker thread only sets a flag; no input to the device is
\* sent by a procedure that runs on it.
C9_CheckerSendsNoInput ==
    [][ sent' # NoAction => caller' # "checker" ]_vars

----------------------------------------------------------------------------
\* RokRemoteBot.run serving a command while the stop checker of the last
\* operation is still inside stop_current_operation (specification SpecOrder)

\* "def smart_recover_to_idle(self, max_attempts: int = 10)"
DefaultRecoveryAttempts == 10

\* The changes of the running device thread that are explored
MaxSwitches == 2

\* The procedure of the running thread, as it is put aside; the captured
\* image is a local of the step that took it
Running ==
    IF caller \in DeviceThreads
    THEN [thread |-> caller, proc |-> proc, pc |-> pc, budget |-> budget,
          attempt |-> attempt, inner |-> inner, shot |-> NoShot,
          result |-> result, cycles |-> cycles, outcome |-> outcome]
    ELSE NoParked

\* The scheduler takes the device thread that runs off the processor and
\* resumes the other one where it stood; the device is not touched
ContextSwitch ==
    /\ Running # parked
    /\ switches < MaxSwitches
    /\ switches' = switches + 1
    /\ parked.thread # "none" \/ main_pc = "recover"
    /\ parked' = Running
    /\ caller' = parked.thread
    /\ proc' = parked.proc
    /\ pc' = parked.pc
    /\ budget' = parked.budget
    /\ attempt' = parked.attempt
    /\ inner' = parked.inner
    /\ shot' = parked.shot
    /\ result' = parked.result
    /\ cycles' = parked.cycles
    /\ outcome' = parked.outcome
    /\ NotSent
    /\ UNCHANGED <<bot_state, main_pc, checker_pc, scanner, stop_scan,
                   trackerVars, concVars, orderRest>>

\* RokRemoteBot.run, command "recover": navigator.smart_recover_to_idle()
\* on the main thread
MainRecoverCommand ==
    /\ main_pc = "poll"
    /\ caller = "none"
    /\ main_pc' = "recover"
    /\ Enter("main", "smart_recover_to_idle", "sr_loop",
             Passes(DefaultRecoveryAttempts))
    /\ UNCHANGED <<shot, result>>
    /\ UNCHANGED <<bot_state, checker_pc, scanner, stop_scan, trackerVars, concVars>>

\* "self.set_state(BotState.IDLE, ...)" or "self.set_state(BotState.ERROR, ...)"
\* with what the recovery returned; an exception is caught by the loop of run
MainRecoverDone ==
    /\ main_pc = "recover"
    /\ caller = "main"
    /\ pc = "idle"
    /\ bot_state' = CASE outcome = "true" -> "idle"
                      [] outcome = "false" -> "error"
                      [] OTHER -> bot_state
    /\ main_pc' = "poll"
    /\ caller' = "none"
    /\ DeviceIdle
    /\ UNCHANGED <<checker_pc, scanner, stop_scan, trackerVars, concVars>>

\* The title bot has been stopped: its stop checker is about to call
\* ensure_idle_and_ready from stop_current_operation, and the main thread,
\* whose loop has ended, is back at the command loop of run
InitOrder ==
    /\ TrackerInit
    /\ ConcInit
    /\ DeviceInit
    /\ frame \in DeviceFrames
    /\ result = NoResult
    /\ caller = "none"
    /\ bot_state = "idle"
    /\ main_pc = "poll"
    /\ checker_pc = "ei_state"
    /\ scanner = FALSE
    /\ stop_scan = FALSE
    /\ ExtInit

NextOrder ==
    \/ MainRecoverCommand \/ MainRecoverDone \/ ContextSwitch
    \/ EnsureIdleClassify \/ EnsureIdleRecovered
    \/ SmartRecoverClassify \/ HandleErrorState \/ PressEscapeSafe
    \/ PressEscapeSafeCheck \/ PressEscapeSafeCancel \/ TapEmptyAreas
    \/ DismissPopup \/ SmartRecoverClose \/ SmartRecoverWait

SpecOrder == InitOrder /\ [][NextOrder]_vars

\* C11: an input of a recovery action reaches the device only when the
\* thread that sends it has classified a frame captured after the last input
\* of the other thread, so that recovery actions and classifications
\* alternate also while the command poller's thread is running.
C11_ClassifiedSinceLastAction ==
    [][ (sent' # NoAction /\ caller \in DeviceThreads) => mark[caller] # cycles ]_vars

----------------------------------------------------------------------------
\* The instance lock of a device (adb_lock.py) and the programs that take it
\* in their main (specification SpecLock)

\* The device actions of one session that are followed
MaxSessionActions == 2

\* A variant of the guard of main that starts the bot whatever acquire said
StartAnyway(acquired) == TRUE

\* "if not acquired: ... return"
StartAllowed(acquired) == acquired

\* InterProcessFileLock.acquire with timeout_s=0.0: without msvcrt the file
\* is opened and True returned; with it, one msvcrt.locking(LK_NBLCK) try,
\* and False when another process holds the byte
LockAcquire ==
    \E p \in Processes :
        /\ procs[p].pc = "start"
        /\ LET free == ~msvcrt \/ file_lock = "none"
           IN  /\ procs' = [procs EXCEPT ![p].pc = "entered", ![p].acquired = free]
               /\ file_lock' = IF msvcrt /\ free THEN p ELSE file_lock
        /\ UNCHANGED <<msvcrt, lockRest>>

\* InterProcessFileLock.release through the "finally" of
\* single_instance_lock: only "if acquired"
Released(p) ==
    IF procs[p].acquired /\ file_lock = p THEN "none" ELSE file_lock

\* "if not acquired: print(...); return": the process ends without a bot
SessionRefused ==
    \E p \in Processes :
        /\ procs[p].pc = "entered"
        /\ ~StartAllowed(procs[p].acquired)
        /\ procs' = [procs EXCEPT ![p].pc = "exited"]
        /\ file_lock' = Released(p)
        /\ UNCHANGED <<msvcrt, lockRest>>

\* main of rok_remote_bot.py and of title_bot.py: the bot is created and
\* run inside the "with" block
SessionStart ==
    \E p \in {"rok_remote_bot", "title_bot"} :
        /\ procs[p].pc = "entered"
        /\ StartAllowed(procs[p].acquired)
        /\ procs' = [procs EXCEPT ![p].pc = "running"]
        /\ UNCHANGED <<msvcrt, file_lock, lockRest>>

\* kingdom_scanner_console.py: the "with" block holds only the check; the
\* scanner is created after it, the lock released
ScannerStart ==
    /\ procs["kingdom_scanner_console"].pc = "entered"
    /\ StartAllowed(procs["kingdom_scanner_console"].acquired)
    /\ procs' = [procs EXCEPT !["kingdom_scanner_console"].pc = "running"]
    /\ file_lock' = Released("kingdom_scanner_console")
    /\ UNCHANGED <<msvcrt, lockRest>>

\* The running bot sends a capture or an input to the emulator
SessionAct ==
    \E p \in Processes :
        /\ procs[p].pc = "running"
        /\ procs[p].actions < MaxSessionActions
        /\ procs' = [procs EXCEPT ![p].actions = @ + 1]
        /\ UNCHANGED <<msvcrt, file_lock, lockRest>>

\* bot.run() returns or raises: the "with" block is left
SessionEnd ==
    \E p \in Processes :
        /\ procs[p].pc = "running"
        /\ procs' = [procs EXCEPT ![p].pc = "exited"]
        /\ file_lock' = Released(p)
        /\ UNCHANGED <<msvcrt, lockRest>>

\* The program is started again
ProcessStart ==
    \E p \in Processes :
        /\ procs[p].pc = "exited"
        /\ procs' = [procs EXCEPT ![p] = NoProcess]
        /\ UNCHANGED <<msvcrt, file_lock, lockRest>>

\* The bots on a platform with or without msvcrt
InitLock ==
    /\ TrackerInit
    /\ ConcInit
    /\ DeviceInit
    /\ frame = IdleFrame
    /\ result = NoResult
    /\ caller = "none"
    /\ bot_state = "offline"
    /\ main_pc = "none"
    /\ checker_pc = "none"
    /\ scanner = FALSE
    /\ stop_scan = FALSE
    /\ OrderInit
    /\ QueueInit
    /\ VisionInit
    /\ EnsureInit
    /\ msvcrt \in BOOLEAN
    /\ file_lock = "none"
    /\ procs = [p \in Processes |-> NoProcess]

NextLock ==
    \/ LockAcquire \/ SessionRefused \/ SessionStart \/ ScannerStart
    \/ SessionAct \/ SessionEnd \/ ProcessStart

SpecLock == InitLock /\ [][NextLock]_vars

----------------------------------------------------------------------------
\* TitleBot's local queue of pending requests (title_bot.py; specification
\* SpecQueue)

max_attempts_per_request == 3

\* The calls of process_single_request for one key that are followed
MaxTries == 4

\* "self.api.is_alliance_allowed(req['alliance_tag'])" for the request's tag
AllowedKeys == {"k1", "k2"}

\* The requests scan_all_requests reads from one screenshot, at most
MaxScanned == 2

\* What scan_all_requests can read from one screenshot: requests in the
\* order of their chat lines; two lines with the same text and tag have the
\* same key
ScanOrders == UNION { [1..n -> Keys] : n \in 0..MaxScanned }

\* str.lower() on the words of the API's messages
LowerWord(w) ==
    CASE w = "You" -> "you"
      [] w = "Already" -> "already"
      [] w = "Pending" -> "pending"
      [] w = "Ja'" -> "ja'"
      [] OTHER -> w

LowerWords(msg) == [i \in DOMAIN msg |-> LowerWord(msg[i])]

\* "phrase in m"
HasPhrase(m, phrase) ==
    \E i \in 1..(Len(m) - Len(phrase) + 1) :
        SubSeq(m, i, i + Len(phrase) - 1) = phrase

\* The rejections with which the API says that such a request is pending
DuplicatePendingMessages ==
    { <<"You", "already", "have", "a", "pending", "request">>,
      <<"Already", "a", "Pending", "request", "for", "this", "title">>,
      <<"Ja'", "existe", "um", "pedido", "pendente">> }

\* Other texts of a response that is not 200: resp.text, or str(e)
OtherMessages ==
    { <<>>, <<"Governor", "not", "found">>, <<"pending", "request", "limit">> }

\* A variant that compares the text as it came, without lower()
is_duplicate_case_sensitive(msg) ==
    /\ msg # <<>>
    /\ \/ HasPhrase(msg, <<"already", "have", "a", "pending", "request">>)
       \/ HasPhrase(msg, <<"already">>) /\ HasPhrase(msg, <<"pending", "request">>)
       \/ /\ HasPhrase(msg, <<"ja'">>) /\ HasPhrase(msg, <<"pedido">>)
          /\ HasPhrase(msg, <<"pendente">>)

\* _is_duplicate_pending_title_response
is_duplicate_pending_title_response(msg) ==
    /\ msg # <<>>
    /\ LET m == LowerWords(msg)
       IN  \/ HasPhrase(m, <<"already", "have", "a", "pending", "request">>)
           \/ HasPhrase(m, <<"already">>) /\ HasPhrase(m, <<"pending", "request">>)
           \/ /\ HasPhrase(m, <<"ja'">>) /\ HasPhrase(m, <<"pedido">>)
              /\ HasPhrase(m, <<"pendente">>)

\* The queue of the bot as one value
QueueNow ==
    [pending |-> pending_requests, keys |-> pending_keys,
     processed |-> processed_requests, failed |-> failed_attempts,
     tries |-> tries, dup |-> dup]

\* A variant of the loop that does not look into pending_keys
RECURSIVE scan_and_queue_unchecked(_, _)
scan_and_queue_unchecked(q, reqs) ==
    IF reqs = <<>> THEN q
    ELSE LET key == Head(reqs)
             next == CASE key \in q.processed -> q
                       [] key \notin AllowedKeys ->
                            [q EXCEPT !.processed = @ \cup {key}]
                       [] OTHER ->
                            [q EXCEPT !.pending = Append(@, key),
                                      !.keys = @ \cup {key}]
         IN  scan_and_queue_unchecked(next, Tail(reqs))

\* The loop of scan_and_queue_requests over the requests read
RECURSIVE scan_and_queue_requests(_, _)
scan_and_queue_requests(q, reqs) ==
    IF reqs = <<>> THEN q
    ELSE LET key == Head(reqs)
             next == CASE key \in q.processed -> q
                       [] key \in q.keys -> q
                       [] key \notin AllowedKeys ->
                            [q EXCEPT !.processed = @ \cup {key}]
                       [] OTHER ->
                            [q EXCEPT !.pending = Append(@, key),
                                      !.keys = @ \cup {key}]
         IN  scan_and_queue_requests(next, Tail(reqs))

\* How one call of process_single_request ends: the API accepted the
\* request, the API rejected it with msg, the call returned False before
\* the API was asked or from its "except", or smart_close_profile raised
\* inside that "except"
Outcomes ==
    { [kind |-> "ok", msg |-> <<>>], [kind |-> "failed", msg |-> <<>>],
      [kind |-> "raised", msg |-> <<>>] }
    \cup { [kind |-> "rejected", msg |-> m] :
             m \in DuplicatePendingMessages \cup OtherMessages }

\* The value process_single_request returns
process_single_request(out) ==
    \/ out.kind = "ok"
    \/ out.kind = "rejected" /\ is_duplicate_pending_title_response(out.msg)

\* process_next_pending on a queue that is not empty
process_next_pending(q, out) ==
    LET key == Head(q.pending)
        popped == [q EXCEPT !.pending = Tail(@), !.keys = @ \ {key},
                            !.tries[key] = @ + 1,
                            !.dup = IF out.kind = "rejected"
                                       /\ out.msg \in DuplicatePendingMessages
                                    THEN @ \cup {key} ELSE @]
        attempts == q.failed[key] + 1
    IN  CASE out.kind = "raised" -> popped
          [] process_single_request(out) ->
               [popped EXCEPT !.processed = @ \cup {key}, !.failed[key] = 0]
          [] attempts >= max_attempts_per_request ->
               [popped EXCEPT !.failed[key] = attempts,
                              !.processed = @ \cup {key}]
          [] OTHER ->
               [popped EXCEPT !.failed[key] = attempts,
                              !.pending = Append(@, key),
                              !.keys = @ \cup {key}]

\* The queue after the step
QueueBecomes(q) ==
    /\ pending_requests' = q.pending
    /\ pending_keys' = q.keys
    /\ processed_requests' = q.processed
    /\ failed_attempts' = q.failed
    /\ tries' = q.tries
    /\ dup' = q.dup

\* _run_title_bot_cycle with requests pending: process_next_pending and
\* return
CyclePending ==
    /\ pending_requests # <<>>
    /\ tries[Head(pending_requests)] < MaxTries
    /\ \E out \in Outcomes : QueueBecomes(process_next_pending(QueueNow, out))
    /\ UNCHANGED queueRest

\* _run_title_bot_cycle with an empty queue: scan_and_queue_requests (no
\* screenshot: nothing), then process_next_pending if something is queued
CycleScan ==
    /\ pending_requests = <<>>
    /\ \E reqs \in ScanOrders :
         LET q == scan_and_queue_requests(QueueNow, reqs)
         IN  IF q.pending = <<>>
             THEN QueueBecomes(q)
             ELSE /\ tries[Head(q.pending)] < MaxTries
                  /\ \E out \in Outcomes :
                       QueueBecomes(process_next_pending(q, out))
    /\ UNCHANGED queueRest

NextQueue == CyclePending \/ CycleScan

SpecQueue == Init /\ [][NextQueue]_vars

\* C13: once the API has answered a request with a duplicate-pending
\* rejection, the request is marked processed, is out of the queue, and
\* process_single_request is never called for it again.
C13_DuplicatePendingIsTerminal ==
    [][ \A k \in dup' :
          /\ k \in processed_requests'
          /\ k \notin pending_keys'
          /\ \A i \in DOMAIN pending_requests' : pending_requests'[i] # k
          /\ k \in dup => tries'[k] = tries[k] ]_vars

\* A request was answered with a duplicate-pending rejection at its second
\* attempt, and the bot has gone on with another request since
C13_Witness ==
    /\ "k1" \in dup
    /\ tries["k1"] = 2
    /\ tries["k2"] > 0

\* C15: process_single_request is called at most max_attempts_per_request
\* times for one request key, and a key that failed that often is marked
\* processed and is out of the queue.
C15_AtMostThreeAttempts ==
    \A k \in Keys :
        /\ tries[k] <= max_attempts_per_request
        /\ failed_attempts[k] >= max_attempts_per_request
              => k \in processed_requests /\ k \notin pending_keys

----------------------------------------------------------------------------
\* Running out of attempts (specification SpecDevice)

\* The heads of the loops of recover_to_idle, smart_recover_to_idle,
\* return_to_idle and TitleBot.recover_to_idle
LoopHeads == {"ir_loop", "sr_loop", "rt_loop", "tr_loop"}

\* C14: a recovery call that has used up its attempts without classifying
\* the goal state returns false to its caller at that point; it neither
\* raises nor makes another attempt.
C14_ExhaustionReturnsFalse ==
    [][ (pc \in LoopHeads /\ attempt >= budget)
        => (pc' = "idle" /\ outcome' = "false" /\ sent' = NoAction) ]_vars

\* TitleBot.recover_to_idle looked at the screen in each of its six
\* attempts, never found it idle, and returned False.
C14_Witness ==
    /\ proc = "TitleBot.recover_to_idle"
    /\ pc = "idle"
    /\ outcome = "false"
    /\ attempt = TitleRecoverAttempts
    /\ cycles = TitleRecoverAttempts

----------------------------------------------------------------------------
\* The tracker and its stats file (specification SpecPersist)

\* Nine requests of other players in one chat pass, once: the next new
\* request is the tenth of the session
TrackNine == TrackBatch(SaveEvery - 1, SaveEvery)

\* "tracker.shutdown()" at the end of a title bot session
Shutdown ==
    /\ shutdown
    /\ UNCHANGED <<screenVars, deviceVars, remoteVars, concVars>>

NextPersist == Tick \/ Track \/ Grant \/ TrackNine \/ Shutdown

SpecPersist == Init /\ [][NextPersist]_vars

\* C16: shutdown writes the stats whatever the number of requests and
\* grants since the last batch save, and when the write goes through, the
\* file is a complete document from which _load_data gets the per-player
\* stats that are in memory.
C16_ShutdownSavesStats ==
    ret.op = "shutdown" =>
        /\ saved.by = "shutdown"
        /\ saved.wrote \in SaveOutcomes
        /\ saved.wrote = "ok" =>
              /\ stats_file.state = "complete"
              /\ stats_file.total_players = Cardinality(DOMAIN player_stats)
              /\ load_data(stats_file) = player_stats

\* A shutdown away from a batch boundary, after a grant, wrote the file,
\* and the file loads to the stats in memory.
C16_Witness ==
    /\ ret.op = "shutdown"
    /\ saved.wrote = "ok"
    /\ session_requests % SaveEvery # 0
    /\ session_grants > 0
    /\ DOMAIN player_stats # {}
    /\ load_data(stats_file) = player_stats

\* C17: whatever happens to a save, the file afterwards is either the
\* complete previous document or the complete new one.
C17_AtomicWrite ==
    [][ stats_file' = stats_file \/ stats_file' = Document(player_stats') ]_vars

\* The tracker's memory other than the return value and the history
MemoryVars ==
    <<now, seen_messages, other_seen, player_stats, recent_requests, other_recent,
      session_requests, session_grants>>

\* C18: when the write of the stats file fails, _save_data logs the error
\* and returns; shutdown returns with the memory untouched, and
\* track_request returns (True, ...) with the seen-cache and the stats
\* updated as track_request updates them.
C18_SaveFailureNotPropagated ==
    [][ (saved'.wrote \in SaveOutcomes \ {"ok"}) =>
          /\ saved'.ended = "returned"
          /\ saved'.logged
          /\ ret'.ok
          /\ CASE saved'.by = "shutdown" ->
                    ret'.op = "shutdown" /\ UNCHANGED MemoryVars
               [] ret'.op = "track" ->
                    \E i \in TrackInputs : TrackedInMemory(i[1], i[2], i[3])
               [] OTHER ->
                    /\ ret'.op = "others"
                    /\ session_requests' = session_requests + (SaveEvery - 1)
                    /\ UNCHANGED player_stats ]_vars

\* The tenth request of the session was tracked as new although its batch
\* save left a partial file.
C18_Witness ==
    /\ ret.op = "track"
    /\ ret.ok
    /\ saved.by = "track_request"
    /\ saved.wrote = "partial"
    /\ stats_file.state = "partial"
    /\ session_requests = SaveEvery
    /\ saved.ended = "returned"

----------------------------------------------------------------------------
\* Frames the classifier cannot read (specification SpecClassify)

\* C19: classification never raises, and a malformed or unreadable frame
\* is classified UNKNOWN with confidence 0 and details that hold the
\* failure reason.
C19_ClassifierNeverRaises ==
    result # NoResult =>
        /\ result # Raised
        /\ ~Readable(frame) =>
              /\ result.state = "UNKNOWN"
              /\ result.confidence = 0
              /\ result.details = "error"

----------------------------------------------------------------------------
\* Captures and inputs that fail (specification SpecDevice)

\* C20: a capture or an input that throws or times out during a cycle of
\* a recovery loop is caught there, and the loop goes on with its next
\* cycle: no exception leaves recover_to_idle or smart_recover_to_idle.
C20_CapabilityFailureCaught ==
    proc \in {"recover_to_idle", "smart_recover_to_idle"} => outcome # "raised"

----------------------------------------------------------------------------
\* VisionSystem.read_text, its preprocessing and its cache (vision_system.py)

\* (datetime.now() - cached_time).total_seconds() < 5
CacheSeconds == 5

MaxOcrTime == 7

MaxCache == 1

\* Time between two read_text calls
OcrDeltas == {2, 3}

\* Gray levels of a pixel: dark, medium, bright
Levels == {90, 160, 250}

\* screen is None
NoImage == [ndim |-> 0, chan |-> 0, pix |-> <<>>]

\* The arrays handed to read_text, two pixels wide: grayscale arrays, a BGR
\* array of neutral pixels, and an array with a channel count that
\* cv2.cvtColor(image, cv2.COLOR_BGR2GRAY) rejects
Bitmaps ==
    { [ndim |-> 2, chan |-> 0, pix |-> <<l, 90>>] : l \in Levels } \cup
    { [ndim |-> 3, chan |-> c, pix |-> <<250, 90>>] : c \in {1, 3} } \cup
    { NoImage }

NoRegion == [x |-> 0, width |-> 0]

\* region=None, a region inside the array, a region outside of it
Regions == { NoRegion, [x |-> 1, width |-> 1], [x |-> 3, width |-> 1] }

\* ScreenRegion.crop: image[y:y+height, x:x+width]
crop(region, image) ==
    [image EXCEPT !.pix =
        SubSeq(image.pix, region.x,
               IF region.x + region.width - 1 < Len(image.pix)
               THEN region.x + region.width - 1 ELSE Len(image.pix))]

\* The crop of None raises TypeError
CropRaises(region, image) == region # NoRegion /\ image = NoImage

\* cv2.threshold(gray, t, 255, cv2.THRESH_BINARY)
Threshold(gray, t) == [i \in 1..Len(gray) |-> IF gray[i] > t THEN 255 ELSE 0]

\* cv2.convertScaleAbs(gray, alpha=a/10, beta=b): rounded and saturated
ConvertScaleAbs(gray, a, b) ==
    [i \in 1..Len(gray) |->
        IF (gray[i] * a + 5) \div 10 + b > 255 THEN 255
        ELSE (gray[i] * a + 5) \div 10 + b]

\* The preprocess modes that work pixel by pixel; "light" is a mode name the
\* chat reader passes that has no branch of its own
Modes == {"default", "dark", "numbers", "light"}

\* cv2.cvtColor raises cv2.error for a 3-d array without 3 or 4 channels
PreprocessRaises(image) == image.ndim = 3 /\ image.chan \notin {3, 4}

\* _preprocess_for_ocr(image, mode): the processed pixels
preprocess_for_ocr(image, mode) ==
    LET gray == image.pix
    IN  CASE mode = "default" -> Threshold(gray, 180)
          [] mode = "dark" -> Threshold(gray, 100)
          [] mode = "numbers" -> Threshold(ConvertScaleAbs(gray, 13, 0), 150)
          [] OTHER -> gray

\* A key that also depends on the name of the mode
cache_key_by_mode(processed, mode) ==
    processed \o << CASE mode = "default" -> 1 [] mode = "dark" -> 2
                      [] mode = "numbers" -> 3 [] OTHER -> 4 >>

\* hashlib.md5(processed.tobytes()).hexdigest(): one key per byte string
cache_key(processed, mode) == processed

\* What the OCR libraries do in one call: tesserocr reads the text; it throws
\* and its English-only retry reads the text; it throws twice; it is missing
\* and pytesseract reads the text; pytesseract throws and its English-only
\* retry reads the text; pytesseract throws twice; both are missing
Engines == {"tesserocr", "tesserocr_eng", "tesserocr_failed", "pytesseract",
            "pytesseract_eng", "pytesseract_failed", "missing"}

EngineFails(engine) ==
    engine \in {"tesserocr_failed", "pytesseract_failed", "missing"}

NoText == <<>>

\* GetUTF8Text().strip() / image_to_string().strip(): no text without a
\* bright pixel, else the text the engine reads with its languages
Recognize(processed, engine) ==
    IF \A i \in 1..Len(processed) : processed[i] < 128 THEN NoText
    ELSE <<IF engine \in {"tesserocr_eng", "pytesseract_eng"} THEN "eng"
           ELSE "eng+chi_sim+chi_tra+kor+jpn+ara">> \o processed

NoPixels == <<>>

OcrRet(mode, processed, hit, ran, text, ends) ==
    [op |-> "read_text", mode |-> mode, processed |-> processed, hit |-> hit,
     ran |-> ran, text |-> text, ends |-> ends]

\* The cache has an entry for the key that is less than 5 seconds old
CacheValid(key) ==
    key \in DOMAIN ocr_cache /\ now - ocr_cache[key].time < CacheSeconds

\* read_text(screen, region, preprocess=mode), with what the OCR libraries do
read_text(screen, region, mode, engine) ==
    LET image == IF region = NoRegion THEN screen ELSE crop(region, screen)
        processed == preprocess_for_ocr(image, mode)
        key == cache_key(processed, mode)
    IN  IF CropRaises(region, screen) \/ image = NoImage \/ image.pix = <<>>
        THEN /\ ocr_ret' = OcrRet(mode, NoPixels, FALSE, FALSE, NoText, "returned")
             /\ UNCHANGED ocr_cache
        ELSE IF PreprocessRaises(image)
        THEN /\ ocr_ret' = OcrRet(mode, NoPixels, FALSE, FALSE, NoText, "raised")
             /\ UNCHANGED ocr_cache
        ELSE IF CacheValid(key)
        THEN /\ ocr_ret' = OcrRet(mode, processed, TRUE, FALSE,
                                  ocr_cache[key].text, "returned")
             /\ UNCHANGED ocr_cache
        ELSE IF EngineFails(engine)
        THEN /\ ocr_ret' = OcrRet(mode, processed, FALSE, TRUE, NoText, "returned")
             /\ UNCHANGED ocr_cache
        ELSE /\ ocr_ret' = OcrRet(mode, processed, FALSE, TRUE,
                                  Recognize(processed, engine), "returned")
             /\ ocr_cache' =
                  [k \in DOMAIN ocr_cache \cup {key} |->
                      IF k = key
                      THEN [text |-> Recognize(processed, engine), time |-> now,
                            mode |-> mode]
                      ELSE ocr_cache[k]]

\* A read_text call of the chat reader or of another reader of the screen
ReadText ==
    /\ \E screen \in Bitmaps, region \in Regions, mode \in Modes, engine \in Engines :
          read_text(screen, region, mode, engine)
    /\ Cardinality(DOMAIN ocr_cache') <= MaxCache
    /\ UNCHANGED <<chat, visionRest>>

\* Time passes between two read_text calls
OcrTick ==
    /\ \E d \in OcrDeltas : now + d <= MaxOcrTime /\ now' = now + d
    /\ ocr_ret' = NoOcrRet
    /\ UNCHANGED <<seen_messages, other_seen, player_stats, recent_requests,
                   other_recent, session_requests, session_grants, ret, hist,
                   persistVars>>
    /\ UNCHANGED <<ocr_cache, chat>>
    /\ UNCHANGED <<screenVars, deviceVars, caller, bot_state, main_pc, checker_pc,
                   scanner, stop_scan, concVars, orderVars, lockVars, queueVars,
                   ensureVars>>

NextOcr == ReadText \/ OcrTick

SpecOcr == Init /\ [][NextOcr]_vars

\* C21: read_text returns the empty string on any internal failure
\* (cropping, preprocessing, OCR library missing or throwing) and never
\* raises to its caller.
C21_ReadTextNeverRaises ==
    ocr_ret.op = "read_text" => ocr_ret.ends = "returned"

\* C22: read_text returns a stored text without running OCR exactly when the
\* cache holds an entry for byte-identical processed pixels that was stored
\* less than 5 seconds earlier, whatever mode name was requested; an older
\* entry is never returned.
C22_CacheHitIffFreshEntry ==
    [][ (ocr_ret'.op = "read_text" /\ ocr_ret'.processed # NoPixels) =>
          LET px == ocr_ret'.processed
              fresh == px \in DOMAIN ocr_cache
                       /\ now - ocr_cache[px].time < CacheSeconds
          IN  /\ ocr_ret'.hit <=> fresh
              /\ ocr_ret'.hit <=> ~ocr_ret'.ran
              /\ ocr_ret'.hit => ocr_ret'.text = ocr_cache[px].text ]_vars

\* A text stored under one mode is returned to a call with another mode
C22_Witness ==
    /\ ocr_ret.op = "read_text"
    /\ ocr_ret.hit
    /\ ocr_ret.processed \in DOMAIN ocr_cache
    /\ ocr_cache[ocr_ret.processed].mode # ocr_ret.mode
    /\ now - ocr_cache[ocr_ret.processed].time = CacheSeconds - 1

----------------------------------------------------------------------------
\* Consecutive chat passes of RokRemoteBot.run_title_bot (rok_remote_bot.py)
\* and the tracker's queue

\* The time from one pass to the next: the capture, the OCR and
\* time.sleep(1.0)
PassDeltas == {1, 4}

\* Passes are followed for this long after each of the clock readings that
\* Tick produces
MaxPassTime == 4

\* TitleRequestTracker.get_queue: the requests not yet granted
get_queue(reqs) == SelectSeq(reqs, LAMBDA r : ~r.was_granted)

\* The entries of the queue for a (normalized player, title type) pair
QueueEntries(h, reqs) ==
    { i \in 1..Len(get_queue(reqs)) :
        PairOf(get_queue(reqs)[i].player_name, get_queue(reqs)[i].title_type) = h }

\* The loop of run_title_bot goes from a pass that yielded a request to its
\* next pass
PassTick ==
    /\ ret.op = "track"
    /\ \E d \in PassDeltas :
          /\ now + d <= MaxTime
          /\ \E base \in {0} \cup Deltas : base <= now /\ now + d <= base + MaxPassTime
          /\ now' = now + d
    /\ ret' = [ret EXCEPT !.op = "pass"]
    /\ NoSaveHere
    /\ UNCHANGED <<seen_messages, other_seen, player_stats, recent_requests,
                   other_recent, session_requests, session_grants, hist>>
    /\ UNCHANGED <<screenVars, deviceVars, remoteVars, concVars>>

NextPasses == Tick \/ PassTick \/ Track \/ Grant \/ ResetSeenMessages

SpecPasses == Init /\ [][NextPasses]_vars

\* The step is a pass that yields the pair the pass before it yielded, at
\* the same clock reading or less than 5 seconds later
SecondPass ==
    /\ ret.op \in {"track", "pass"}
    /\ ret'.op = "track"
    /\ ret'.pair = ret.pair

----------------------------------------------------------------------------
\* ChatParser (vision_system.py).  A text is a sequence of characters;
\* characters outside ASCII are written by name: "LF" and "TAB" are "\n" and
\* "\t", "NBSP" the no-break space, "ZWSP" the zero-width space (category
\* Cf), "CR" the carriage return (Cc), "c2" the circled digit two, "fl" the
\* ligature U+FB02, "SGT" the small greater-than sign U+FE65 and "SCOLON" the
\* small colon U+FE55.

Digits == {"0", "1", "2", "8"}

CircledDigits == {"c2"}

\* Characters whose Unicode category is none of L, N, P, S, Z and that are
\* not in the keep list of _clean_ocr_text
ControlChars == {"ZWSP", "CR"}

AsciiLetters == UpperLetters \cup LowerLetters

\* "\w" of the re module: letters, digits and the underscore
WordChars == AsciiLetters \cup Digits \cup CircledDigits \cup {"fl", "_"}

\* "[A-Z0-9(circled digits)]" of the tag repairs
RepairTagChars == UpperLetters \cup Digits \cup CircledDigits

\* "if cat[0] in ('L', 'N', 'P', 'S', 'Z') or char in '\n\t:>...'"
KeepPrintable(text) == SelectSeq(text, LAMBDA c : c \notin ControlChars)

\* The chain of str.replace calls of _clean_ocr_text
ReplaceMisreadings(text) ==
    LET kept == SelectSeq(text, LAMBDA c : c # "fl")
    IN  [i \in 1..Len(kept) |->
            CASE kept[i] = "|" -> "]"
              [] kept[i] = "(" -> "["
              [] kept[i] = ")" -> "]"
              [] kept[i] \in {"SGT", "SCOLON"} -> ":"
              [] OTHER -> kept[i]]

At(text, i) == IF i >= 1 /\ i <= Len(text) THEN text[i] ELSE "END"

\* A variant of the repairs whose "glued" rule does not look at the character
\* after the letter
RepairMatchesNoLookahead(rule, text, i, n) ==
    /\ At(text, i) = "["
    /\ \A k \in 1..n : At(text, i + k) \in RepairTagChars
    /\ CASE rule = "l" ->
              /\ At(text, i + n + 1) = "l"
              /\ At(text, i + n + 2) \in UpperLetters
         [] rule = "J" ->
              /\ At(text, i + n + 1) = "J"
              /\ At(text, i + n + 2) \in UpperLetters
              /\ At(text, i + n + 3) \in UpperLetters
              /\ At(text, i + n + 4) \in Whitespace
         [] OTHER -> At(text, i + n + 1) \in AsciiLetters

\* The three tag repairs match "[", n tag characters and one more character:
\*   "l"     r'\[([A-Z0-9...]{3,4})l(?=[A-Z])'
\*   "J"     r'\[([A-Z0-9...]{3,4})J(?=[A-Z]{2}\s)'
\*   "glued" r'\[([A-Z0-9...]{3,4})([A-Za-z])(?!\])'
RepairMatches(rule, text, i, n) ==
    /\ At(text, i) = "["
    /\ \A k \in 1..n : At(text, i + k) \in RepairTagChars
    /\ CASE rule = "l" ->
              /\ At(text, i + n + 1) = "l"
              /\ At(text, i + n + 2) \in UpperLetters
         [] rule = "J" ->
              /\ At(text, i + n + 1) = "J"
              /\ At(text, i + n + 2) \in UpperLetters
              /\ At(text, i + n + 3) \in UpperLetters
              /\ At(text, i + n + 4) \in Whitespace
         [] OTHER ->
              /\ At(text, i + n + 1) \in AsciiLetters
              /\ At(text, i + n + 2) # "]"

\* The length of the tag of the match at i ({3,4} is greedy), 0 without one
RepairTagLen(rule, text, i) ==
    IF RepairMatches(rule, text, i, 4) THEN 4
    ELSE IF RepairMatches(rule, text, i, 3) THEN 3 ELSE 0

\* re.sub of one tag repair from position i on: "[TAG]" replaces the match,
\* the "glued" repair keeps the letter after the tag
RECURSIVE RepairTags(_, _, _)
RepairTags(rule, text, i) ==
    IF i > Len(text) THEN <<>>
    ELSE LET n == RepairTagLen(rule, text, i)
         IN  IF n = 0 THEN <<text[i]>> \o RepairTags(rule, text, i + 1)
             ELSE <<"[">> \o SubSeq(text, i + 1, i + n) \o <<"]">>
                  \o (IF rule = "glued" THEN <<text[i + n + 1]>> ELSE <<>>)
                  \o RepairTags(rule, text, i + n + 2)

\* re.sub(r'\s+', ' ', text)
RECURSIVE CollapseSpaces(_)
CollapseSpaces(text) ==
    IF text = <<>> THEN <<>>
    ELSE IF Head(text) \in Whitespace
    THEN LET rest == CollapseSpaces(Tail(text))
         IN  IF rest # <<>> /\ Head(rest) = " " THEN rest ELSE <<" ">> \o rest
    ELSE <<Head(text)>> \o CollapseSpaces(Tail(text))

\* A cleaning pass without the tag repairs
clean_without_repairs(text) ==
    Strip(CollapseSpaces(ReplaceMisreadings(KeepPrintable(text))))

\* ChatParser._clean_ocr_text
clean_ocr_text(text) ==
    Strip(CollapseSpaces(
        RepairTags("glued",
            RepairTags("J",
                RepairTags("l", ReplaceMisreadings(KeepPrintable(text)), 1), 1), 1)))

\* ChatParser.__init__: self.title_keywords, in the order of the list
title_keywords ==
    << <<"d", "u", "k", "e">>, <<"s", "c", "i", "e", "n", "t", "i", "s", "t">>, <<"a", "r", "c", "h", "i", "t", "e", "c", "t">>, <<"j", "u", "s", "t", "i", "c", "e">>,
       <<"t", "i", "t", "l", "e">>, <<"t", "i", "t", "u", "l", "o">>, <<"t", "i", "t", "r", "e">>, <<"t", "i", "t", "l", "u">> >>

\* The four titles among them
FourTitles == << <<"d", "u", "k", "e">>, <<"s", "c", "i", "e", "n", "t", "i", "s", "t">>, <<"a", "r", "c", "h", "i", "t", "e", "c", "t">>, <<"j", "u", "s", "t", "i", "c", "e">> >>

\* ChatParser.__init__: self.title_abbreviations
title_abbreviations ==
    << [abbr |-> <<"s", "c", "i">>, title |-> <<"s", "c", "i", "e", "n", "t", "i", "s", "t">>],
       [abbr |-> <<"a", "r", "c", "h">>, title |-> <<"a", "r", "c", "h", "i", "t", "e", "c", "t">>],
       [abbr |-> <<"d", "u", "k">>, title |-> <<"d", "u", "k", "e">>],
       [abbr |-> <<"j", "u", "s">>, title |-> <<"j", "u", "s", "t", "i", "c", "e">>] >>

\* The word is in the text at position i, whatever the case of the letters
WordAt(text, i, word) ==
    /\ i >= 1
    /\ i + Len(word) - 1 <= Len(text)
    /\ \A k \in 1..Len(word) : LowerChar(text[i + k - 1]) = word[k]

\* "word in text.lower()"
Contains(text, word) == \E i \in 1..Len(text) : WordAt(text, i, word)

\* text.lower().find(word), from 1
Find(text, word) == CHOOSE i \in 1..Len(text) :
                        /\ WordAt(text, i, word)
                        /\ \A j \in 1..(i - 1) : ~WordAt(text, j, word)

\* rf'{keyword}(?=$|[\s\W])' with re.IGNORECASE
KeywordAt(text, i, keyword) ==
    /\ WordAt(text, i, keyword)
    /\ At(text, i + Len(keyword)) \notin WordChars

\* A keyword match that does not look at the character after the keyword
KeywordAtNoGuard(text, i, keyword) == WordAt(text, i, keyword)

KeywordsAt(text, i) ==
    { k \in 1..Len(title_keywords) : KeywordAt(text, i, title_keywords[k]) }

\* title_positions after the sort: (start, end, keyword) of every keyword
\* occurrence; start is the position of its first character, end the one
\* after its last
title_positions(text) ==
    LET starts == SelectSeq([i \in 1..Len(text) |-> i],
                            LAMBDA i : KeywordsAt(text, i) # {})
    IN  [j \in 1..Len(starts) |->
            LET kw == title_keywords[CHOOSE k \in KeywordsAt(text, starts[j]) : TRUE]
            IN  [start |-> starts[j], end |-> starts[j] + Len(kw), title |-> kw]]

\* "[A-Za-z0-9(circled digits)]" of tag_pattern
TagChars == AsciiLetters \cup Digits \cup CircledDigits

\* The number of characters from position i on that are in the set
RECURSIVE RunLength(_, _, _)
RunLength(text, i, set) ==
    IF At(text, i) \in set THEN 1 + RunLength(text, i + 1, set) ELSE 0

NoMatch == [start |-> 0]

\* One match of tag_pattern that begins at position i:
\*   \[(tag{1,8})\]([^:\[]+?)(?:[\s:]+)?(keyword)(?=$|[\s\W])
\* the shortest name after which, behind the separators, a keyword stands
TagMatchAt(text, i) ==
    LET n == RunLength(text, i + 1, TagChars)
        a == i + n + 2
        KeywordStart(m) == a + m + RunLength(text, a + m, Whitespace \cup {":"})
        NameOk(m) ==
            /\ \A k \in 0..(m - 1) : At(text, a + k) \notin {":", "[", "END"}
            /\ KeywordsAt(text, KeywordStart(m)) # {}
        lengths == { m \in 1..Len(text) : NameOk(m) }
    IN  IF At(text, i) = "[" /\ n >= 1 /\ n <= 8 /\ At(text, i + n + 1) = "]"
           /\ lengths # {}
        THEN LET m == CHOOSE x \in lengths : \A y \in lengths : x <= y
                 kw == title_keywords[CHOOSE k \in KeywordsAt(text, KeywordStart(m)) : TRUE]
             IN  [start |-> i, tag |-> SubSeq(text, i + 1, i + n),
                  name |-> SubSeq(text, a, a + m - 1), title |-> kw,
                  at |-> KeywordStart(m), end |-> KeywordStart(m) + Len(kw)]
        ELSE NoMatch

\* re.finditer(tag_pattern, joined_text, re.IGNORECASE) from position i on
RECURSIVE TagMatches(_, _)
TagMatches(text, i) ==
    IF i > Len(text) THEN <<>>
    ELSE LET match == TagMatchAt(text, i)
         IN  IF match = NoMatch THEN TagMatches(text, i + 1)
             ELSE <<match>> \o TagMatches(text, match.end)

\* ChatParser._normalize_tag
normalize_tag(tag) ==
    [i \in 1..Len(tag) |->
        CASE tag[i] = "c2" -> "2"
          [] tag[i] \in {"O", "o"} -> "0"
          [] tag[i] \in {"l", "I"} -> "1"
          [] OTHER -> tag[i]]

\* result.split("---")[-1]
RECURSIVE AfterSeparators(_)
AfterSeparators(name) ==
    LET sep == <<"-", "-", "-">>
    IN  IF Contains(name, sep)
        THEN AfterSeparators(SubSeq(name, Find(name, sep) + 3, Len(name)))
        ELSE name

\* ChatParser._normalize_player_name
normalize_player_name(name) ==
    LET digits == [i \in 1..Len(name) |-> IF name[i] = "c2" THEN "2" ELSE name[i]]
        letters == { i \in 1..Len(digits) : digits[i] \in AsciiLetters }
        latin == IF letters = {} THEN digits
                 ELSE SubSeq(digits, CHOOSE i \in letters : \A j \in letters : i <= j,
                             Len(digits))
        split == AfterSeparators(latin)
        unglued == IF Len(split) >= 2 /\ split[1] = "l" /\ split[2] \in UpperLetters
                   THEN Tail(split) ELSE split
    IN  Strip(unglued)

\* ChatMessage; "at" is the position of the keyword the message was made
\* for (bookkeeping, not a field of the class)
ChatMessage(alliance_tag, player_name, message, raw_text, at) ==
    [alliance_tag |-> alliance_tag, player_name |-> player_name,
     message |-> message, raw_text |-> raw_text, at |-> at]

\* The name of a tagged match as parse_messages cleans it
TaggedName(name) == normalize_player_name(clean_ocr_text(Strip(name)))

\* The first loop of parse_messages: the tagged matches that have a name
TaggedKept(text) ==
    SelectSeq(TagMatches(text, 1), LAMBDA t : TaggedName(t.name) # <<>>)

TaggedMessages(text, kept) ==
    [j \in 1..Len(kept) |->
        ChatMessage(normalize_tag(kept[j].tag), TaggedName(kept[j].name),
                    kept[j].title, SubSeq(text, kept[j].start, kept[j].end - 1),
                    kept[j].at)]

\* tagged_ranges
tagged_ranges(kept) == { <<kept[j].start, kept[j].end>> : j \in 1..Len(kept) }

\* A range check that never finds the keyword inside a tagged match
never_in_tagged(ranges, title_start) == FALSE

\* "any(start <= title_start <= end for start, end in tagged_ranges)"
is_in_tagged(ranges, title_start) ==
    \E r \in ranges : r[1] <= title_start /\ title_start <= r[2]

Reverse(text) == [i \in 1..Len(text) |-> text[Len(text) - i + 1]]

\* The name an untagged keyword occurrence stands behind
UntaggedName(text, positions, p) ==
    LET name_end == p.start -
            RunLength(Reverse(SubSeq(text, 1, p.start - 1)), 1, {" ", ":"})
        ends == { positions[j].end : j \in 1..Len(positions) }
        before == { x \in ends : x < name_end }
        prev_title_end == IF before = {} THEN 1
                          ELSE CHOOSE x \in before : \A y \in before : y <= x
        name_start == prev_title_end +
            RunLength(SubSeq(text, prev_title_end, name_end - 1), 1, {" ", ":"})
    IN  normalize_player_name(clean_ocr_text(
            Strip(SubSeq(text, name_start, name_end - 1))))

\* "any(m.player_name.lower() == player_name.lower() for m in messages)"
already_exists(messages, player_name) ==
    \E j \in 1..Len(messages) : Lower(messages[j].player_name) = Lower(player_name)

\* The second loop of parse_messages from keyword occurrence j on
RECURSIVE UntaggedLoop(_, _, _, _, _)
UntaggedLoop(text, positions, ranges, j, messages) ==
    IF j > Len(positions) THEN messages
    ELSE LET p == positions[j]
             player_name == UntaggedName(text, positions, p)
         IN  IF is_in_tagged(ranges, p.start)
             THEN UntaggedLoop(text, positions, ranges, j + 1, messages)
             ELSE IF Len(player_name) >= 2 /\ ~already_exists(messages, player_name)
             THEN UntaggedLoop(text, positions, ranges, j + 1,
                      Append(messages,
                             ChatMessage(<<>>, player_name, p.title,
                                         player_name \o <<" ">> \o p.title, p.start)))
             ELSE UntaggedLoop(text, positions, ranges, j + 1, messages)

\* remaining.split()[0]
FirstWord(text) ==
    LET body == LStrip(text)
        spaces == { i \in 1..Len(body) : body[i] \in Whitespace }
    IN  IF spaces = {} THEN body
        ELSE SubSeq(body, 1, (CHOOSE i \in spaces : \A j \in spaces : i <= j) - 1)

\* ChatParser._clean_message
clean_message(message) ==
    LET found == { k \in 1..4 : Contains(message, FourTitles[k]) }
    IN  IF found = {} THEN message
        ELSE LET kw == FourTitles[CHOOSE k \in found : \A x \in found : k <= x]
                 kw_end == Find(message, kw) + Len(kw)
                 word == FirstWord(Strip(SubSeq(message, kw_end, Len(message))))
             IN  IF word # <<>> /\ Len(word) < 10
                    /\ \A i \in 1..Len(word) : word[i] \in AsciiLetters \cup {"fl"}
                 THEN SubSeq(message, 1, kw_end - 1) \o <<" ">> \o word
                 ELSE SubSeq(message, 1, kw_end - 1)

\* A variant of the last loop that keeps every message
KeepAll(messages) ==
    [j \in 1..Len(messages) |->
        [messages[j] EXCEPT !.message = clean_message(@)]]

\* The last loop of parse_messages: the first message of every lower-cased
\* player name, its message cleaned
Deduplicate(messages) ==
    LET first == SelectSeq([j \in 1..Len(messages) |-> j],
                    LAMBDA j : \A i \in 1..(j - 1) :
                        Lower(messages[i].player_name) # Lower(messages[j].player_name))
    IN  [j \in 1..Len(first) |->
            [messages[first[j]] EXCEPT !.message = clean_message(@)]]

\* The list parse_messages builds before it removes repeated names
DetectedMessages(ocr_text) ==
    LET joined_text == clean_ocr_text(ocr_text)
        kept == TaggedKept(joined_text)
    IN  UntaggedLoop(joined_text, title_positions(joined_text), tagged_ranges(kept),
                     1, TaggedMessages(joined_text, kept))

\* ChatParser.parse_messages; the cleaned text has no line break left, so
\* joined_text is the cleaned text
parse_messages(ocr_text) ==
    IF ocr_text = <<>> THEN <<>> ELSE Deduplicate(DetectedMessages(ocr_text))

\* ChatParser.find_title_requests
find_title_requests(messages) ==
    SelectSeq(messages, LAMBDA m :
        \E k \in 1..Len(title_keywords) : Contains(m.message, title_keywords[k]))

\* ChatParser.extract_title_type
extract_title_type(message) ==
    IF Contains(message, <<"j", "u", "s", "t", "i", "c", "e">>) \/ Contains(message, <<"j", "u", "s">>) THEN <<"j", "u", "s", "t", "i", "c", "e">>
    ELSE IF Contains(message, <<"d", "u", "k", "e">>) \/ Contains(message, <<"d", "u", "k">>) THEN <<"d", "u", "k", "e">>
    ELSE IF Contains(message, <<"a", "r", "c", "h", "i", "t", "e", "c", "t">>) \/ Contains(message, <<"a", "r", "c", "h">>) THEN <<"a", "r", "c", "h", "i", "t", "e", "c", "t">>
    ELSE IF Contains(message, <<"s", "c", "i", "e", "n", "t", "i", "s", "t">>) \/ Contains(message, <<"s", "c", "i">>) THEN <<"s", "c", "i", "e", "n", "t", "i", "s", "t">>
    ELSE <<"s", "c", "i", "e", "n", "t", "i", "s", "t">>

\* VisionSystem.find_title_requests, from the messages of the chat reader
\* on: (player_name, alliance_tag, title_type) of every title request
TitleRequests(messages) ==
    [j \in 1..Len(find_title_requests(messages)) |->
        LET msg == find_title_requests(messages)[j]
        IN  <<msg.player_name, msg.alliance_tag, extract_title_type(msg.message)>>]

----------------------------------------------------------------------------
\* The chat parser on the texts of one OCR pass

MaxChunks == 3

\* Pieces of OCR text: messages with a tag, tags that lost their bracket,
\* names, title words, an abbreviation and misread characters
ParseChunks ==
    { <<"[", "F", "2", "8", "A", "]", "B", "o", "b", " ", "d", "u", "k", "e", " ">>,
      <<"[", "F", "2", "8", "A", "]", "B", "O", "B", ":", " ", "j", "u", "s", "t", "i", "c", "e", " ">>,
      <<"[", "F", "2", "8", "A", "l">>,
      <<"[", "F", "2", "8", "A">>,
      <<"]">>,
      <<"B", "o", "b">>,
      <<"W", "A", "T", "U", "Z", "I">>,
      <<" ", "d", "u", "k", "e">>,
      <<" ", "s", "c", "i", "e", "n", "t", "i", "s", "t">>,
      <<" ", "t", "i", "t", "l", "e">>,
      <<" ", "s", "c", "i">>,
      <<"J">>,
      <<"E", "D", " ", "L", "O", "B", "O">>,
      <<"ZWSP", "|">> }

RECURSIVE Flatten(_)
Flatten(pieces) ==
    IF pieces = <<>> THEN <<>> ELSE Head(pieces) \o Flatten(Tail(pieces))

\* The OCR texts: up to MaxChunks pieces in a row, and the empty text
Texts ==
    { <<>> } \cup
    UNION { { Flatten(p) : p \in [1..n -> ParseChunks] } : n \in 1..MaxChunks }

\* The text read_text returned for the chat region
ChatText(text) == [op |-> "text", text |-> text]

InitParse ==
    /\ TrackerInit
    /\ ConcInit
    /\ DeviceInit
    /\ frame = IdleFrame
    /\ result = NoResult
    /\ caller = "none"
    /\ bot_state = "offline"
    /\ main_pc = "none"
    /\ checker_pc = "none"
    /\ scanner = FALSE
    /\ stop_scan = FALSE
    /\ OrderInit
    /\ LockInit
    /\ QueueInit
    /\ ocr_cache = [k \in {} |-> 0]
    /\ ocr_ret = NoOcrRet
    /\ chat \in { ChatText(t) : t \in Texts }
    /\ EnsureInit

\* parser._clean_ocr_text(text), on the OCR text and on its own result
CleanOcrText ==
    /\ chat.op \in {"text", "cleaned"}
    /\ chat.op = "cleaned" => chat.passes < 2
    /\ chat' = [op |-> "cleaned",
                raw |-> IF chat.op = "text" THEN chat.text ELSE chat.raw,
                source |-> chat.text,
                text |-> clean_ocr_text(chat.text),
                passes |-> IF chat.op = "text" THEN 1 ELSE chat.passes + 1]
    /\ UNCHANGED <<ocr_cache, ocr_ret, visionRest>>

\* parser.parse_messages(text) in read_chat_messages
ParseMessages ==
    /\ chat.op = "text"
    /\ chat' = [op |-> "parsed", text |-> chat.text,
                messages |-> parse_messages(chat.text)]
    /\ UNCHANGED <<ocr_cache, ocr_ret, visionRest>>

\* VisionSystem.find_title_requests after read_chat_messages
FindTitleRequests ==
    /\ chat.op = "parsed"
    /\ chat' = [op |-> "requests", text |-> chat.text, messages |-> chat.messages,
                requests |-> TitleRequests(chat.messages)]
    /\ UNCHANGED <<ocr_cache, ocr_ret, visionRest>>

\* parser.extract_title_type(message) on the text as a message
ExtractTitleType ==
    /\ chat.op = "text"
    /\ chat' = [op |-> "title_type", text |-> chat.text,
                title_type |-> extract_title_type(chat.text)]
    /\ UNCHANGED <<ocr_cache, ocr_ret, visionRest>>

NextParse == CleanOcrText \/ ParseMessages \/ FindTitleRequests \/ ExtractTitleType

SpecParse == InitParse /\ [][NextParse]_vars

\* The keyword occurrences that the tagged matches behind the reported
\* tagged messages consumed
ConsumedPositions(text) ==
    LET kept == TaggedKept(clean_ocr_text(text))
    IN  { kept[j].at : j \in 1..Len(kept) }

\* The messages parse_messages detected in the text before it removed the
\* repeated names
Detected(text) == IF text = <<>> THEN <<>> ELSE DetectedMessages(text)

\* C24: a title-keyword occurrence that was consumed by a tagged
\* "[TAG]Name: keyword" match is never also reported as an untagged message,
\* for any input text.
C24_ConsumedKeywordNotUntagged ==
    chat.op = "parsed" =>
        LET detected == Detected(chat.text)
            consumed == ConsumedPositions(chat.text)
        IN  \A j \in 1..Len(detected) :
                detected[j].alliance_tag = <<>> => detected[j].at \notin consumed

\* A text with a tagged message and an untagged one behind it
C24_Witness ==
    /\ chat.op = "parsed"
    /\ ConsumedPositions(chat.text) # {}
    /\ \E j \in 1..Len(chat.messages) : chat.messages[j].alliance_tag = <<>>

\* C25: the list parse_messages returns has no two messages whose player
\* names are equal after lower-casing, and for each such name the message
\* kept is the first one in the order in which the messages were detected.
C25_FirstOfEachNameKept ==
    chat.op = "parsed" =>
        LET detected == Detected(chat.text)
        IN  /\ \A i, j \in 1..Len(chat.messages) :
                  i # j => Lower(chat.messages[i].player_name)
                           # Lower(chat.messages[j].player_name)
            /\ \A i \in 1..Len(detected) :
                  (\A k \in 1..(i - 1) : Lower(detected[k].player_name)
                                          # Lower(detected[i].player_name))
                  => \E j \in 1..Len(chat.messages) :
                        /\ chat.messages[j].player_name = detected[i].player_name
                        /\ chat.messages[j].alliance_tag = detected[i].alliance_tag
                        /\ chat.messages[j].at = detected[i].at

\* Two messages of one player, spelled Bob and BOB, were detected and the
\* first was kept
C25_Witness ==
    /\ chat.op = "parsed"
    /\ Len(Detected(chat.text)) = 2
    /\ Len(chat.messages) = 1
    /\ Detected(chat.text)[1].player_name # Detected(chat.text)[2].player_name
    /\ chat.messages[1].player_name = Detected(chat.text)[1].player_name

\* The text has one of the four title words or of their abbreviations
HasKnownKeyword(text) ==
    \/ \E k \in 1..Len(FourTitles) : Contains(text, FourTitles[k])
    \/ \E k \in 1..Len(title_abbreviations) : Contains(text, title_abbreviations[k].abbr)

\* C26: if the OCR text contains none of the known title keywords (duke,
\* scientist, architect, justice or their abbreviations), parse_messages
\* returns no messages and no title request is produced for it.
C26_NoKeywordNoMessage ==
    (chat.op \in {"parsed", "requests"} /\ ~HasKnownKeyword(chat.text)) =>
        /\ chat.messages = <<>>
        /\ chat.op = "requests" => chat.requests = <<>>

\* The titles a message names, by keyword or abbreviation
Candidates(message) ==
    { k \in 1..Len(title_abbreviations) :
        \/ Contains(message, title_abbreviations[k].title)
        \/ Contains(message, title_abbreviations[k].abbr) }

\* C27: extract_title_type returns the default only when the message has
\* several title candidates; in every other case it returns the title type
\* of the keyword that is present.
C27_DefaultOnlyWhenAmbiguous ==
    (chat.op = "title_type" /\ Cardinality(Candidates(chat.text)) <= 1) =>
        \E k \in Candidates(chat.text) :
            chat.title_type = title_abbreviations[k].title

\* C28: the OCR cleaning pass is idempotent: clean(clean(text)) equals
\* clean(text) for every input text.
C28_CleanIdempotent ==
    (chat.op = "cleaned" /\ chat.passes = 2) => chat.text = chat.source

\* The second pass ran on a text whose tag the first pass had repaired
C28_Witness ==
    /\ chat.op = "cleaned"
    /\ chat.passes = 2
    /\ Len(chat.text) # Len(chat.raw)
    /\ \E i \in 1..Len(chat.text) : chat.text[i] = "]" /\ At(chat.raw, i) # "]"

\* "[F28AlWATUZI scientist"
BracketLossText == <<"[", "F", "2", "8", "A", "l", "W", "A", "T", "U", "Z", "I", " ", "s", "c", "i", "e", "n", "t", "i", "s", "t">>

\* C29: parsing the bracket-loss text "[F28AlWATUZI scientist" yields a
\* message with alliance tag "F28A", player name "WATUZI" and message
\* "scientist".
C29_BracketLossScenario ==
    (chat.op = "parsed" /\ chat.text = BracketLossText) =>
        /\ Len(chat.messages) = 1
        /\ chat.messages[1].alliance_tag = <<"F", "2", "8", "A">>
        /\ chat.messages[1].player_name = <<"W", "A", "T", "U", "Z", "I">>
        /\ chat.messages[1].message = <<"s", "c", "i", "e", "n", "t", "i", "s", "t">>

\* The bracket-loss text has been parsed
C29_Witness ==
    /\ chat.op = "parsed"
    /\ chat.text = BracketLossText
    /\ Len(chat.messages) = 1
    /\ chat.messages[1].raw_text # chat.text

----------------------------------------------------------------------------
\* The signals of the exit-dialog check of the classifier

\* StateDetector._is_exit_menu: max_val > 0.7 of the exit_menu template
template_match(screen) == screen.tmpl > 70

\* StateDetector._is_exit_menu: has_notice_color (BGR bands)
has_notice_color(screen) ==
    /\ 60 < screen.notice.b /\ screen.notice.b < 120
    /\ 130 < screen.notice.g /\ screen.notice.g < 200
    /\ 110 < screen.notice.r /\ screen.notice.r < 180

\* StateDetector._is_exit_menu: has_cancel (BGR bands)
has_cancel(screen) ==
    /\ 80 < screen.cancel.b /\ screen.cancel.b < 150
    /\ 150 < screen.cancel.g /\ screen.cancel.g < 220
    /\ 150 < screen.cancel.r /\ screen.cancel.r < 220

\* StateDetector._is_exit_menu: has_popup_structure
has_popup_structure(screen) == screen.popBright > 120 /\ screen.popStd < 60

\* C30: each classifier check reports a match only when all of the signals
\* it evaluates are satisfied; no single signal, a template score for
\* example, is enough. For the exit-dialog check of detect_state: a frame
\* classified EXIT_MENU has the header colour, the CANCEL colour and the
\* popup structure.
C30_AllSignalsRequired ==
    (result # NoResult /\ Readable(frame) /\ result.state = "EXIT_MENU") =>
        /\ has_notice_color(frame)
        /\ has_cancel(frame)
        /\ has_popup_structure(frame)

----------------------------------------------------------------------------
\* The recovery policy table of the classifier

\* The closed action vocabulary
ActionVocabulary == {"tap", "wait", "escape_sequence", "ready"}

\* C31: the recovery policy table maps every non-goal GameState to an action,
\* and every action it returns belongs to the closed vocabulary tap, wait,
\* escape_sequence or ready: whenever recover_to_idle has looked up the action
\* for the state it detected, that action is in the vocabulary.
C31_ActionInVocabulary ==
    (proc = "recover_to_idle" /\ pc = "ir_act") =>
        get_recovery_action(result.state).action \in ActionVocabulary

----------------------------------------------------------------------------
\* GameNavigator.ensure_idle_state (specification SpecEnsure). Similarities
\* and thresholds are in percent.

MaxEnsureAttempts == 3

\* What _compare_images can yield for a capture; is_idle reports 0.0 when the
\* capture or the comparison raises
Similarities == {0, 45, 65, 80}

\* "threshold: float = 0.75", and the stricter default of verify_idle_state
Thresholds == {75, 85}

\* The comparison of the capture with the idle reference has not run
NoSimilarity == 0 - 1

\* IdleStateVerifier.is_idle: (is_idle, similarity) for a capture of the
\* given similarity
is_idle(similarity, threshold) ==
    [is_idle |-> similarity >= threshold, similarity |-> similarity]

\* "max(threshold - 0.15, 0.5)"
FinalThreshold(threshold) ==
    IF threshold - 15 > 50 THEN threshold - 15 ELSE 50

\* The strategy of the loop for an attempt
Strategy(n) ==
    CASE n = 0 -> "tap_empty_areas"
      [] n = 1 -> "tap_close_buttons"
      [] OTHER -> "close_all_panels"

\* The call as it starts, with or without an idle reference on the verifier
EnsureCall(has_reference, n, threshold) ==
    [ pc |-> "called", has_reference |-> has_reference,
      max_attempts |-> n, threshold |-> threshold,
      attempt |-> 0, similarity |-> NoSimilarity, used |-> threshold,
      on_map |-> "unread", strategy |-> "none", ret |-> "none" ]

InitEnsure ==
    /\ TrackerInit
    /\ ConcInit
    /\ DeviceInit
    /\ frame = IdleFrame
    /\ result = NoResult
    /\ caller = "none"
    /\ bot_state = "offline"
    /\ main_pc = "none"
    /\ checker_pc = "none"
    /\ scanner = FALSE
    /\ stop_scan = FALSE
    /\ OrderInit
    /\ LockInit
    /\ QueueInit
    /\ VisionInit
    /\ adb = [lock |-> "none", cmd |-> [p \in AdbClients |-> NoCommand]]
    /\ remote = NoRemote
    /\ ensure \in { EnsureCall(r, m, t) : r \in BOOLEAN,
                                         m \in 1..MaxEnsureAttempts,
                                         t \in Thresholds }

\* ensure_idle_state up to its loop: without an idle reference it captures
\* the current screen as the reference (the capture may fail) and returns
\* True; with one it taps the CANCEL position of the exit dialog
EnsureIdleState ==
    /\ ensure.pc = "called"
    /\ IF ~ensure.has_reference
       THEN \E captured \in BOOLEAN :
                ensure' = [ensure EXCEPT !.pc = "done", !.ret = "true",
                                         !.has_reference = captured,
                                         !.strategy = "capture_idle_reference"]
       ELSE ensure' = [ensure EXCEPT !.pc = "loop", !.strategy = "tap_cancel"]
    /\ UNCHANGED <<adb, remote, ensureRest>>

\* One pass of "for attempt in range(max_attempts)": verify_idle_state,
\* _is_on_map, and the strategy of this attempt
EnsureIdleAttempt ==
    /\ ensure.pc = "loop"
    /\ ensure.attempt < ensure.max_attempts
    /\ \E similarity \in Similarities, menu \in BOOLEAN :
          LET seen == is_idle(similarity, ensure.threshold)
          IN  IF seen.is_idle
              THEN ensure' = [ensure EXCEPT !.pc = "done", !.ret = "true",
                                            !.similarity = seen.similarity,
                                            !.used = ensure.threshold,
                                            !.on_map = "unread"]
              ELSE IF menu /\ seen.similarity > 40
              THEN ensure' = [ensure EXCEPT !.pc = "done", !.ret = "true",
                                            !.similarity = seen.similarity,
                                            !.used = ensure.threshold,
                                            !.on_map = "yes"]
              ELSE ensure' = [ensure EXCEPT !.similarity = seen.similarity,
                                            !.used = ensure.threshold,
                                            !.on_map = IF menu THEN "yes" ELSE "no",
                                            !.strategy = Strategy(ensure.attempt),
                                            !.attempt = ensure.attempt + 1]
    /\ UNCHANGED <<adb, remote, ensureRest>>

\* After the loop: return_to_idle, the final check with the lowered
\* threshold, the bottom menu, the partial similarity
EnsureIdleFinal ==
    /\ ensure.pc = "loop"
    /\ ensure.attempt >= ensure.max_attempts
    /\ \E similarity \in Similarities, menu \in BOOLEAN :
          LET used == FinalThreshold(ensure.threshold)
              seen == is_idle(similarity, used)
              after == [ensure EXCEPT !.pc = "done", !.strategy = "return_to_idle",
                                      !.similarity = seen.similarity, !.used = used]
          IN  IF seen.is_idle
              THEN ensure' = [after EXCEPT !.ret = "true", !.on_map = "unread"]
              ELSE IF menu
              THEN ensure' = [after EXCEPT !.ret = "true", !.on_map = "yes"]
              ELSE IF seen.similarity > 40
              THEN ensure' = [after EXCEPT !.ret = "true", !.on_map = "no"]
              ELSE ensure' = [after EXCEPT !.ret = "false", !.on_map = "no"]
    /\ UNCHANGED <<adb, remote, ensureRest>>

NextEnsure == EnsureIdleState \/ EnsureIdleAttempt \/ EnsureIdleFinal

SpecEnsure == InitEnsure /\ [][NextEnsure]_vars

\* The call observed the idle reference matched, a bottom menu or a partial
\* similarity
Observed ==
    /\ ensure.similarity # NoSimilarity
    /\ \/ ensure.similarity >= ensure.used
       \/ ensure.on_map = "yes"
       \/ ensure.similarity > 40

\* C32: ensure_idle_state returns true only if, during that call, the
\* similarity to the idle reference met the threshold or, as best effort, a
\* bottom-menu signature or a partial similarity was observed; without any
\* such observation it returns false.
C32_TrueOnlyWhenObserved ==
    ensure.pc = "done" =>
        /\ ensure.ret = "true" => Observed
        /\ ~Observed => ensure.ret = "false"

----------------------------------------------------------------------------
\* Claims on record_grant and the counters (specification Spec)

\* This step is a record_grant call
GrantStep ==
    /\ ret'.op = "grant"
    /\ ret' # ret \/ session_grants' # session_grants

\* The requests of the list that record_grant(p, k) can mark: the player's,
\* by normalized name, with the title k as given, not yet granted
Markable(p, k) ==
    { i \in 1..Len(recent_requests) :
        /\ Strip(Lower(recent_requests[i].player_name)) = Strip(Lower(p))
        /\ recent_requests[i].title_type = k
        /\ ~recent_requests[i].was_granted }

\* The requests this step changed
Changed ==
    { i \in 1..Len(recent_requests) : recent_requests'[i] # recent_requests[i] }

\* Request i was marked granted and nothing else of it changed
MarkedOnly(i) ==
    /\ recent_requests'[i].was_granted
    /\ ~recent_requests[i].was_granted
    /\ [recent_requests'[i] EXCEPT !.was_granted = FALSE, !.granted_at = NoTime]
         = [recent_requests[i] EXCEPT !.granted_at = NoTime]

\* C33 as stated: record_grant(p, k) marks as granted exactly one
\* TitleRequest and modifies no other.
C33_MarksExactlyOne ==
    [][ GrantStep =>
          /\ Len(recent_requests') = Len(recent_requests)
          /\ Cardinality(Changed) = 1
          /\ \A i \in Changed : MarkedOnly(i) ]_vars

\* C33 amended: record_grant(p, k) marks as granted at most one TitleRequest:
\* the most recent one of player p with title k that is not yet granted, if
\* there is one and the player has stats, and none otherwise; it changes
\* nothing but the granted flag and time of that request, and it neither
\* mutates nor deletes any other request.
C33_MarksLatestMatching ==
    [][ GrantStep =>
          /\ Len(recent_requests') = Len(recent_requests)
          /\ \A i \in Changed : MarkedOnly(i)
          /\ \A call \in GrantInputs :
                PairOf(call[1], call[2]) = ret'.pair =>
                    LET hits == Markable(call[1], call[2])
                    IN  /\ (ret'.ok /\ hits # {}) =>
                              Changed = { CHOOSE i \in hits : \A j \in hits : j <= i }
                        /\ (~ret'.ok \/ hits = {}) => Changed = {} ]_vars

\* Two requests of one player for one title were in the list, neither
\* granted, and record_grant marked the later one
C33_Witness ==
    /\ ret.op = "grant"
    /\ ret.ok
    /\ Len(recent_requests) = 2
    /\ recent_requests[1].player_name = recent_requests[2].player_name
    /\ recent_requests[1].title_type = recent_requests[2].title_type
    /\ ~recent_requests[1].was_granted
    /\ recent_requests[2].was_granted

----------------------------------------------------------------------------
\* ADB commands under adb_interprocess_lock (specification SpecAdb). Times
\* are in seconds.

\* "timeout_s=30.0" of the lock in ADBHelper._run
adb_lock_timeout == 30

\* "timeout=30" of subprocess.run in ADBHelper._run
adb_command_timeout == 30

\* Time that passes between two looks at the processes
AdbDeltas == {10}

\* InterProcessFileLock.acquire, one try: without msvcrt it opens the file and
\* returns True, with it msvcrt.locking(LK_NBLCK) succeeds when no other
\* process holds the byte
TryLock(p) == ~msvcrt \/ adb.lock = "none"

\* The process runs its command, holding the byte lock or not
RunCommand(p, locked) ==
    adb' = [ lock |-> IF locked /\ msvcrt THEN p ELSE adb.lock,
             cmd |-> [adb.cmd EXCEPT ![p] = [pc |-> "running", locked |-> locked,
                                             waited |-> 0, ran |-> 0]] ]

\* ADBHelper._run: "with adb_interprocess_lock(self.device_id, timeout_s=30.0)"
\* up to the first try of acquire
AdbRun ==
    \E p \in AdbClients :
        /\ adb.cmd[p].pc = "idle"
        /\ IF TryLock(p)
           THEN RunCommand(p, TRUE)
           ELSE adb' = [adb EXCEPT !.cmd[p].pc = "waiting"]
        /\ UNCHANGED <<ensure, remote, ensureRest>>

\* A later try of the loop of acquire, every poll_s seconds: the byte is free
AdbAcquire ==
    \E p \in AdbClients :
        /\ adb.cmd[p].pc = "waiting"
        /\ TryLock(p)
        /\ RunCommand(p, TRUE)
        /\ UNCHANGED <<ensure, remote, ensureRest>>

\* "if (time.time() - start) >= self.timeout_s: ... return False", and the
\* context manager yields all the same ("best-effort: proceed without lock")
AdbTimeout ==
    \E p \in AdbClients :
        /\ adb.cmd[p].pc = "waiting"
        /\ ~TryLock(p)
        /\ adb.cmd[p].waited >= adb_lock_timeout
        /\ RunCommand(p, FALSE)
        /\ UNCHANGED <<ensure, remote, ensureRest>>

\* subprocess.run returns, or raises TimeoutExpired after its timeout, and
\* the "finally" of the context manager releases the lock "if acquired"
AdbDone ==
    \E p \in AdbClients :
        /\ adb.cmd[p].pc = "running"
        /\ adb' = [ lock |-> IF adb.lock = p THEN "none" ELSE adb.lock,
                    cmd |-> [adb.cmd EXCEPT ![p] = NoCommand] ]
        /\ UNCHANGED <<ensure, remote, ensureRest>>

\* Time passes: no command runs beyond its timeout, and a waiting process has
\* made its try (it polls every 0.05 s) before the time of this step is over
AdbTick ==
    \E d \in AdbDeltas :
        /\ \A p \in AdbClients :
              /\ adb.cmd[p].pc = "running" => adb.cmd[p].ran + d <= adb_command_timeout
              /\ adb.cmd[p].pc = "waiting" =>
                    /\ ~TryLock(p)
                    /\ adb.cmd[p].waited < adb_lock_timeout
        /\ \E p \in AdbClients : adb.cmd[p].pc # "idle"
        /\ adb' = [adb EXCEPT !.cmd =
                     [p \in AdbClients |->
                        CASE adb.cmd[p].pc = "running" -> [adb.cmd[p] EXCEPT !.ran = @ + d]
                          [] adb.cmd[p].pc = "waiting" -> [adb.cmd[p] EXCEPT !.waited = @ + d]
                          [] OTHER -> adb.cmd[p]]]
        /\ UNCHANGED <<ensure, remote, ensureRest>>

InitAdb ==
    /\ TrackerInit
    /\ ConcInit
    /\ DeviceInit
    /\ frame = IdleFrame
    /\ result = NoResult
    /\ caller = "none"
    /\ bot_state = "offline"
    /\ main_pc = "none"
    /\ checker_pc = "none"
    /\ scanner = FALSE
    /\ stop_scan = FALSE
    /\ OrderInit
    /\ QueueInit
    /\ VisionInit
    /\ EnsureInit
    /\ msvcrt \in BOOLEAN
    /\ file_lock = "none"
    /\ procs = [p \in Processes |-> NoProcess]

NextAdb == AdbRun \/ AdbAcquire \/ AdbTimeout \/ AdbDone \/ AdbTick

SpecAdb == InitAdb /\ [][NextAdb]_vars

\* C34: ADB commands issued under adb_interprocess_lock with the same device
\* key are serialized across processes: at no time do two processes run an
\* ADB command for that device concurrently.
C34_CommandsSerialized ==
    Cardinality({ p \in AdbClients : adb.cmd[p].pc = "running" }) <= 1

----------------------------------------------------------------------------
\* The instance lock as each process sees it (specification SpecLock)

\* The process is inside the "with single_instance_lock(...)" block: the two
\* bots run in it, the scanner console only makes its check there
InsideWith(p) ==
    \/ procs[p].pc = "entered"
    \/ procs[p].pc = "running" /\ p # "kingdom_scanner_console"

\* C36: for a given lock name, single_instance_lock reports acquired=true to
\* at most one process at a time.
C36_AcquiredByOneAtATime ==
    Cardinality({ p \in Processes : InsideWith(p) /\ procs[p].acquired }) <= 1

----------------------------------------------------------------------------
\* The remote bot's scan: the backend's command slot, RokRemoteBot.run,
\* run_scan and the stop checker thread that run_scan starts

\* valid_commands of send_bot_command that are explored
RemoteCommands == {"start_scan", "stop", "idle", "get_state"}

\* The commands the backend accepts in one exploration
MaxIssued == 3

\* The governors one scan reports through gov_callback
ScanAmount == 1

\* What the steps of the scan leave alone
scanRest == <<trackerVars, screenVars, deviceVars, caller, concVars, orderVars,
              lockVars, queueVars, visionVars, ensure, adb>>

\* The positions of the main thread inside run_scan
InRunScan == {"run_scan", "navigating", "set_scanning", "scanning"}

\* send_bot_command: the command takes the kingdom's slot, over any command
\* that is still waiting there
SendBotCommand ==
    \E c \in RemoteCommands :
        /\ remote.issued < MaxIssued
        /\ remote' = [remote EXCEPT !.pending = c, !.issued = @ + 1]
        /\ UNCHANGED <<bot_state, main_pc, checker_pc, scanner, stop_scan, scanRest>>

\* The branches of the dispatcher in RokRemoteBot.run
Dispatched == {"start_scan", "start_title_bot", "stop", "idle", "capture_idle",
               "get_state", "recover", "debug_chat"}

\* RokRemoteBot.run: poll_command pops the command of the slot and the
\* dispatcher enters its branch. start_scan enters run_scan, which resets
\* scanned_count and starts the stop checker thread before any state change;
\* stop enters stop_current_operation and idle ensure_idle_and_ready, which
\* sets NAVIGATING; get_state changes nothing. One stop checker is explored
\* at a time.
RunPollCommand ==
    LET c == remote.pending IN
    /\ main_pc = "poll"
    /\ c # "none"
    /\ c = "start_scan" => checker_pc \in {"none", "ended"}
    /\ remote' = [remote EXCEPT
                    !.pending = "none",
                    !.fetched = [by |-> "main", command |-> c,
                                 handled |-> c \in Dispatched],
                    !.stop_seen = IF c = "start_scan" THEN FALSE ELSE @,
                    !.scanned_count = IF c = "start_scan" THEN 0 ELSE @]
    /\ main_pc' = CASE c = "start_scan" -> "run_scan"
                    [] c \in {"stop", "idle"} -> "ensure"
                    [] OTHER -> "poll"
    /\ checker_pc' = IF c = "start_scan" THEN "loop" ELSE checker_pc
    /\ stop_scan' = IF c = "stop" /\ scanner THEN TRUE ELSE stop_scan
    /\ bot_state' = IF c \in {"stop", "idle"} THEN "navigating" ELSE bot_state
    /\ UNCHANGED <<scanner, scanRest>>

\* ensure_idle_and_ready on the main thread ends with IDLE or ERROR
RunEnsured ==
    /\ main_pc = "ensure"
    /\ bot_state' \in {"idle", "error"}
    /\ main_pc' = "poll"
    /\ UNCHANGED <<checker_pc, scanner, stop_scan, remote, scanRest>>

\* run_scan: navigate_to_rankings sets NAVIGATING, unless skip_navigation
RunScanNavigate ==
    /\ main_pc = "run_scan"
    /\ IF remote.skip_navigation
       THEN /\ main_pc' = "set_scanning"
            /\ UNCHANGED bot_state
       ELSE /\ main_pc' = "navigating"
            /\ bot_state' = "navigating"
    /\ UNCHANGED <<checker_pc, scanner, stop_scan, remote, scanRest>>

\* navigate_to_rankings returns: on False run_scan returns and its finally
\* block sets IDLE
RunScanNavigated ==
    /\ main_pc = "navigating"
    /\ \E ok \in BOOLEAN :
          IF ok
          THEN /\ main_pc' = "set_scanning"
               /\ UNCHANGED bot_state
          ELSE /\ main_pc' = "poll"
               /\ bot_state' = "idle"
    /\ UNCHANGED <<checker_pc, scanner, stop_scan, remote, scanRest>>

\* run_scan sets SCANNING, creates a new KingdomScanner, whose stop flag is
\* clear, and calls its start_scan
RunScanStart ==
    /\ main_pc = "set_scanning"
    /\ bot_state' = "scanning"
    /\ scanner' = TRUE
    /\ stop_scan' = FALSE
    /\ main_pc' = "scanning"
    /\ UNCHANGED <<checker_pc, remote, scanRest>>

\* gov_callback: the scanner reports one governor
GovCallback ==
    /\ main_pc = "scanning"
    /\ remote.scanned_count < ScanAmount
    /\ remote' = [remote EXCEPT !.scanned_count = @ + 1]
    /\ UNCHANGED <<bot_state, main_pc, checker_pc, scanner, stop_scan, scanRest>>

\* start_scan returns; run_scan sets IDLE, and again in its finally block
RunScanReturn ==
    /\ main_pc = "scanning"
    /\ bot_state' = "idle"
    /\ main_pc' = "poll"
    /\ UNCHANGED <<checker_pc, scanner, stop_scan, remote, scanRest>>

\* _check_for_stop_command: one evaluation of the loop condition and, inside
\* the loop, one poll_command. A stop or an idle enters
\* stop_current_operation, which sets the flags of the scanner if there is
\* one and enters ensure_idle_and_ready; any other command has no branch.
StopCheckerLoop ==
    LET c == remote.pending IN
    /\ checker_pc = "loop"
    /\ IF bot_state \notin ActiveStates
       THEN /\ checker_pc' = "ended"
            /\ UNCHANGED <<bot_state, stop_scan, remote>>
       ELSE /\ remote' = [remote EXCEPT
                            !.pending = "none",
                            !.fetched = IF c = "none" THEN @
                                        ELSE [by |-> "checker", command |-> c,
                                              handled |-> c \in {"stop", "idle"}],
                            !.stop_seen = IF c = "stop" /\ main_pc \in InRunScan
                                          THEN TRUE ELSE @]
            /\ checker_pc' = IF c \in {"stop", "idle"} THEN "stopping" ELSE "sleep"
            /\ stop_scan' = IF c \in {"stop", "idle"} /\ scanner THEN TRUE
                            ELSE stop_scan
            /\ bot_state' = IF c \in {"stop", "idle"} THEN "navigating"
                            ELSE bot_state
    /\ UNCHANGED <<main_pc, scanner, scanRest>>

\* time.sleep(0.5) of the stop checker
StopCheckerSleep ==
    /\ checker_pc = "sleep"
    /\ checker_pc' = "loop"
    /\ UNCHANGED <<bot_state, main_pc, scanner, stop_scan, remote, scanRest>>

\* ensure_idle_and_ready on the stop checker thread ends with IDLE or ERROR,
\* and the thread leaves its loop
StopCheckerEnsured ==
    /\ checker_pc = "stopping"
    /\ bot_state' \in {"idle", "error"}
    /\ checker_pc' = "ended"
    /\ UNCHANGED <<main_pc, scanner, stop_scan, remote, scanRest>>

\* The bot waits at its command loop; an earlier scan may have left a scanner
InitScan ==
    /\ TrackerInit
    /\ ConcInit
    /\ DeviceInit
    /\ frame = IdleFrame
    /\ result = NoResult
    /\ caller = "none"
    /\ bot_state = "idle"
    /\ main_pc = "poll"
    /\ checker_pc = "none"
    /\ scanner \in BOOLEAN
    /\ stop_scan = FALSE
    /\ OrderInit
    /\ LockInit
    /\ QueueInit
    /\ VisionInit
    /\ ensure = NoEnsure
    /\ adb = [lock |-> "none", cmd |-> [p \in AdbClients |-> NoCommand]]
    /\ remote \in { [NoRemote EXCEPT !.skip_navigation = s] : s \in BOOLEAN }

NextScan ==
    \/ SendBotCommand
    \/ RunPollCommand
    \/ RunEnsured
    \/ RunScanNavigate
    \/ RunScanNavigated
    \/ RunScanStart
    \/ GovCallback
    \/ RunScanReturn
    \/ StopCheckerLoop
    \/ StopCheckerSleep
    \/ StopCheckerEnsured

SpecScan == InitScan /\ [][NextScan]_vars

\* C35: a stop command issued while an operation started by run_scan is in
\* progress, its navigation phase included, is observed and the scan is
\* stopped rather than started: run_scan does not call start_scan after the
\* stop checker has fetched a stop command during this run_scan.
C35_StopPreventsScanStart ==
    [][(main_pc = "set_scanning" /\ main_pc' = "scanning") => ~remote.stop_seen]_vars

\* C40: no command fetched from the remote command source is silently
\* discarded: whichever thread's poll_command returned it, the command has
\* entered a branch of the dispatcher or is a stop or idle command that
\* entered stop_current_operation.
C40_NoFetchedCommandDiscarded ==
    remote.fetched.command # "none" => remote.fetched.handled

\* total_requests of the player with this normalized name; a player without
\* stats has none
TotalRequests(stats, n) ==
    IF n \in DOMAIN stats THEN stats[n].total_requests ELSE 0

\* C37: each track_request that returns isNew = true increases
\* session_requests by exactly one and the total_requests of that player by
\* exactly one, and of no other player; a track_request that returns
\* isNew = false leaves session_requests, all per-player counters and the
\* recent-request list unchanged.
C37_CountersCountNewRequests ==
    [][ ret'.op = "track" =>
          IF ret'.ok
          THEN /\ session_requests' = session_requests + 1
               /\ \A n \in NormNames :
                     TotalRequests(player_stats', n) =
                        TotalRequests(player_stats, n)
                          + (IF n = ret'.pair[1] THEN 1 ELSE 0)
          ELSE /\ session_requests' = session_requests
               /\ player_stats' = player_stats
               /\ recent_requests' = recent_requests
               /\ other_recent' = other_recent ]_vars

\* A player asked twice and was counted twice, and then asked again within
\* the TTL: the last call returned isNew = false
C37_Witness ==
    /\ ret.op = "track"
    /\ ~ret.ok
    /\ session_requests = 2
    /\ TotalRequests(player_stats, ret.pair[1]) = 2

----------------------------------------------------------------------------
\* The tracker under callers that may report a grant more than once
\* (specification SpecGrants)

\* The grants of one session that are explored
MaxRepeatedGrants == 2

\* record_grant(player_name, title_type), called again after a grant
GrantAgain ==
    /\ \E i \in GrantInputs : RecordGrantWithin(i[1], i[2], MaxRepeatedGrants)
    /\ NoSaveHere
    /\ UNCHANGED <<screenVars, deviceVars, remoteVars, concVars>>

NextGrants == Tick \/ Track \/ GrantAgain

SpecGrants == Init /\ [][NextGrants]_vars

\* C38: for every player total_grants is at most total_requests and the
\* grants of each title are at most the requests of that title, so that
\* grant_rate is at most 100 percent.
C38_GrantsWithinRequests ==
    \A n \in DOMAIN player_stats :
        /\ player_stats[n].total_grants <= player_stats[n].total_requests
        /\ \A k \in TitleTypes :
              player_stats[n].grants[k] <= player_stats[n].requests[k]
        /\ grant_rate(player_stats[n]) <= 100

----------------------------------------------------------------------------
\* The local pending queue (specification SpecQueue)

\* The keys of the requests in the queue
QueuedKeys(reqs) == { reqs[i] : i \in DOMAIN reqs }

\* C39: after any sequence of scan_and_queue_requests and
\* process_next_pending calls a request key is in the local pending queue at
\* most once, pending_keys is exactly the set of the keys in
\* pending_requests, and no key that is marked processed is pending or is
\* enqueued again: it stays marked and out of the queue.
C39_QueueKeysConsistent ==
    [][ /\ \A i, j \in DOMAIN pending_requests' :
              i # j => pending_requests'[i] # pending_requests'[j]
        /\ pending_keys' = QueuedKeys(pending_requests')
        /\ processed_requests' \cap QueuedKeys(pending_requests') = {}
        /\ processed_requests \subseteq processed_requests' ]_vars

\* A scan marked the request of an alliance that is not allowed as
\* processed; a later scan queued two requests, the first of them failed
\* once and went back to the end of the queue
C39_Witness ==
    /\ pending_requests = <<"k2", "k1">>
    /\ pending_keys = {"k1", "k2"}
    /\ failed_attempts["k1"] = 1
    /\ "k3" \in processed_requests

============================================================================
